---- MODULE Spec2Model ----
(***************************************************************************)
(* SprintSync: the peer session engine (PeerProvider), the host race state *)
(* machine (HostView) and the gate controller (GateView with the motion    *)
(* service), as React components: a handler reads the values closed over   *)
(* by the last render (the "view") and queues state updates; a render      *)
(* commits the queued updates and runs the effects.                        *)
(***************************************************************************)
EXTENDS Integers, Sequences, FiniteSets, TLC

\* ------------------------------------------------------------------ bounds
MaxTime == 2      \* the host clock runs 0..MaxTime
MaxStamp == 2     \* Date.now() readings a gate can put in a TRIGGER payload
MaxConn == 3      \* data connections opened over the whole run
MaxQueue == 1     \* messages in flight per direction of one connection
MaxRetry == 1     \* reconnect timers pending on one gate
MaxSent == 2      \* TRIGGERs counted per gate since it was last told ARMED
MaxEvents == 2    \* entries the host's trigger-event buffer holds
MaxTimers == 2    \* reconnect timers pending when close and error fire for one connection

Gates == {"g1", "g2"}
ConnIds == 1..MaxConn
NoConn == 0

\* GateRole plus 'NONE' (usePeerService.tsx ConnectedPeer.role)
GateRole == {"START", "FINISH", "SPLIT"}
NONE == "NONE"

\* The role buttons of the host view the operator uses in this model.
RoleButtons == {"START", "FINISH"}

\* ---------------------------------------------------------------- messages
\* PeerData: {type, payload?: {name, role, state, timestamp}}; one record
\* shape, "-" and 0 standing for an absent field.
Msg(t, r, s, ts) == [type |-> t, role |-> r, state |-> s, timestamp |-> ts]
NoMessage == Msg("null", "-", "-", 0)
JoinMsg == Msg("JOIN", "-", "-", 0)
RoleAssignMsg(r) == Msg("ROLE_ASSIGN", r, "-", 0)
StateChangeMsg(s) == Msg("STATE_CHANGE", "-", s, 0)
ResetMsg == Msg("RESET", "-", "-", 0)
TriggerMsg(r, ts) == Msg("TRIGGER", r, "-", ts)

VARIABLES
    host,     \* PeerProvider (host mode) and HostView state
    gates,    \* per gate: PeerProvider (client mode), GateView, motion service
    conns,    \* the transport's data connections
    toHost,   \* per connection: messages in flight gate -> host
    toGate,   \* per connection: messages in flight host -> gate
    now       \* the host's clock (Date.now() on the host)

vars == <<host, gates, conns, toHost, toGate, now>>

\* The state as one value, for the operators that model a handler.
World == [host |-> host, gates |-> gates, conns |-> conns,
          toHost |-> toHost, toGate |-> toGate, now |-> now]

SetWorld(w) ==
    /\ host' = w.host
    /\ gates' = w.gates
    /\ conns' = w.conns
    /\ toHost' = w.toHost
    /\ toGate' = w.toGate
    /\ now' = w.now

\* No queue holds more than MaxQueue messages.
Fits(w) ==
    \A c \in ConnIds : Len(w.toHost[c]) <= MaxQueue /\ Len(w.toGate[c]) <= MaxQueue

\* conn.send on the host's end: lost when the gate's end is closed. log notes
\* the calls of conn.send the running host handler has made, in order (an
\* observation, not a field of the program).
SendToGate(w, c, m) ==
    LET w1 == [w EXCEPT !.host.log = Append(@, [conn |-> c, msg |-> m])]
    IN IF w.conns[c].g = "closed" THEN w1
       ELSE [w1 EXCEPT !.toGate[c] = Append(@, m)]

\* conn.send on the gate's end: lost when the host's end is closed.
SendToHostConn(w, c, m) ==
    IF w.conns[c].h = "closed" THEN w
    ELSE [w EXCEPT !.toHost[c] = Append(@, m)]

\* Array.prototype.map / filter / find / some on a sequence.
RECURSIVE SeqFilterId(_, _)
SeqFilterId(s, id) ==
    IF s = <<>> THEN <<>>
    ELSE IF Head(s).id # id THEN <<Head(s)>> \o SeqFilterId(Tail(s), id)
    ELSE SeqFilterId(Tail(s), id)

Indices(s) == 1..Len(s)
\* find(p => p.id === id) and find(p => p.role === role): the index of the
\* first match, 0 when there is none.
FindById(s, id) ==
    IF \E i \in Indices(s) : s[i].id = id
    THEN CHOOSE i \in Indices(s) : s[i].id = id /\ \A j \in 1..(i-1) : s[j].id # id
    ELSE 0

FindByRole(s, role) ==
    IF \E i \in Indices(s) : s[i].role = role
    THEN CHOOSE i \in Indices(s) : s[i].role = role /\ \A j \in 1..(i-1) : s[j].role # role
    ELSE 0

\* ===================================================== PeerProvider (host)
\* handleMessage: setLatestMessage({...data}), and a TRIGGER that carries a
\* role and a timestamp is appended to triggerEvents.
hostHandleMessage(w, m) ==
    [w EXCEPT !.host.latestMessage = m, !.host.handled = FALSE,
              !.host.triggerEvents =
                  IF m.type = "TRIGGER" /\ m.role # "-" /\ m.timestamp # 0
                  THEN Append(@, [role |-> m.role, timestamp |-> m.timestamp])
                  ELSE @]

\* handleIncomingConnection, conn.on('open'): a new ConnectedPeer.
onIncomingOpen(w, c) ==
    LET newPeer == [id |-> w.conns[c].gate, conn |-> c, role |-> NONE, name |-> "Unknown"]
    IN [w EXCEPT !.host.peersRef = Append(@, newPeer), !.conns[c].h = "open"]

\* An incoming-data handler in which JOIN also resets the peer's role.
onIncomingDataJoinResetsRole(w, c) ==
    LET m == Head(w.toHost[c])
        w1 == [w EXCEPT !.toHost[c] = Tail(@)]
        peer == w.conns[c].gate
    IN IF m.type = "JOIN"
       THEN [w1 EXCEPT !.host.peersRef =
                [i \in Indices(@) |-> IF @[i].id = peer
                                       THEN [@[i] EXCEPT !.name = "Named", !.role = NONE]
                                       ELSE @[i]]]
       ELSE hostHandleMessage(w1, m)

\* handleIncomingConnection, conn.on('data').
onIncomingData(w, c) ==
    LET m == Head(w.toHost[c])
        w1 == [w EXCEPT !.toHost[c] = Tail(@)]
        peer == w.conns[c].gate
    IN IF m.type = "JOIN"
       THEN [w1 EXCEPT !.host.peersRef =
                [i \in Indices(@) |-> IF @[i].id = peer THEN [@[i] EXCEPT !.name = "Named"] ELSE @[i]]]
       ELSE hostHandleMessage(w1, m)

\* handleIncomingConnection, conn.on('close') and conn.on('error'): both filter
\* the registry by peer id. Messages still in flight to the host are lost.
onIncomingClose(w, c) ==
    [w EXCEPT !.host.peersRef = SeqFilterId(@, w.conns[c].gate),
              !.conns[c].h = "closed",
              !.toHost[c] = <<>>]

\* assignRole(peerId, role)
assignRole(w, peerId, role) ==
    LET mapped == [i \in Indices(w.host.peersRef) |->
                     IF w.host.peersRef[i].id = peerId
                     THEN [w.host.peersRef[i] EXCEPT !.role = role]
                     ELSE w.host.peersRef[i]]
        w1 == [w EXCEPT !.host.peersRef = mapped]
        k == FindById(mapped, peerId)
    IN IF k # 0 THEN SendToGate(w1, mapped[k].conn, RoleAssignMsg(role)) ELSE w1

\* peersRef.current.forEach(p => p.conn.send(m))
RECURSIVE SendEach(_, _, _)
SendEach(w, ps, m) ==
    IF ps = <<>> THEN w
    ELSE SendEach(SendToGate(w, Head(ps).conn, m), Tail(ps), m)

\* A broadcastState that leaves out the peers without a role.
HasRole(p) == p.role # NONE
broadcastStateSkipsUnassigned(w, state) ==
    SendEach(w, SelectSeq(w.host.peersRef, HasRole), StateChangeMsg(state))

\* broadcastState(state)
broadcastState(w, state) == SendEach(w, w.host.peersRef, StateChangeMsg(state))

\* sendReset()
sendReset(w) == SendEach(w, w.host.peersRef, ResetMsg)

\* A broadcastReset that leaves the trigger events in the buffer.
broadcastResetKeepsEvents(w) == sendReset(w)

\* A broadcastReset that also takes the race back to IDLE.
broadcastResetCancels(w) ==
    [sendReset(w) EXCEPT !.host.triggerEvents = <<>>, !.host.raceState = "IDLE"]

\* broadcastReset(): sendReset(); setTriggerEvents([])
broadcastReset(w) == [sendReset(w) EXCEPT !.host.triggerEvents = <<>>]

\* ================================================================ HostView
\* An arm button that is enabled whatever the roles are.
canStartAlways(peers) == TRUE

\* const canStart = peerService.peers.some(p => p.role === GateRole.START)
canStart(peers) == \E i \in Indices(peers) : peers[i].role = "START"

\* The controls: "Arm System" is rendered in IDLE and FINISHED, "Cancel" in
\* ARMED and "Stop Race" in RUNNING (both call cancelRace).
armVisibleAlways(raceState) == TRUE
armVisible(raceState) == raceState \in {"IDLE", "FINISHED"}

cancelVisibleAlways(raceState) == TRUE
cancelVisible(raceState) == raceState \in {"ARMED", "RUNNING"}

\* The values the handlers of the last render closed over.
HostViewOf(h) ==
    [raceState |-> h.raceState, startTime |-> h.startTime,
     timerInterval |-> h.timerInterval, peers |-> h.peersRef,
     latestMessage |-> h.latestMessage]

SamplerIds(h) == {s.id : s \in h.samplers}

\* setInterval returns an id no live or remembered timer has.
FreshInterval(h) ==
    CHOOSE n \in 1..4 :
        /\ n \notin SamplerIds(h) \cup {h.timerInterval, h.view.timerInterval}
        /\ \A k \in 1..(n-1) : k \in SamplerIds(h) \cup {h.timerInterval, h.view.timerInterval}

clearInterval(h, id) == [h EXCEPT !.samplers = {s \in @ : s.id # id}]

\* A startTimer that takes the start time from the TRIGGER's payload.
startTimerFromPayload(w) ==
    LET interval == FreshInterval(w.host)
    IN [w EXCEPT !.host.raceState = "RUNNING",
                 !.host.startTime = w.host.view.latestMessage.timestamp,
                 !.host.samplers = @ \cup {[id |-> interval, base |-> w.now]},
                 !.host.timerInterval = interval,
                 !.host.t0 = w.now]

\* startTimer(). t0 notes the host clock at this call (an observation, not a
\* field of the program).
startTimer(w) ==
    LET interval == FreshInterval(w.host)
    IN [w EXCEPT !.host.raceState = "RUNNING",
                 !.host.startTime = w.now,
                 !.host.samplers = @ \cup {[id |-> interval, base |-> w.now]},
                 !.host.timerInterval = interval,
                 !.host.t0 = w.now]

\* A stopTimer that forgets the handle without clearing the interval.
stopTimerKeepsInterval(w) == [w EXCEPT !.host.timerInterval = 0]

\* stopTimer(), closed over the rendered timerInterval
stopTimer(w) ==
    IF w.host.view.timerInterval # 0
    THEN [w EXCEPT !.host = [clearInterval(@, w.host.view.timerInterval) EXCEPT !.timerInterval = 0]]
    ELSE w

\* handleTrigger(role, _remoteTimestamp), closed over the rendered raceState
\* and startTime. The SPLIT branch only records a split time for display.
\* t1 notes the host clock when the FINISH branch runs (an observation).
\* A handleTrigger whose FINISH branch does not look at the race state.
handleTriggerAnyState(w, role) ==
    LET v == w.host.view
    IN IF v.raceState = "ARMED" /\ role = "START" THEN startTimer(w)
       ELSE IF role = "FINISH"
       THEN LET w1 == stopTimer(w)
                w2 == [w1 EXCEPT !.host.raceState = "FINISHED"]
                w3 == broadcastState(w2, "LOBBY")
            IN [w3 EXCEPT !.host.elapsedTime = w.now - v.startTime, !.host.t1 = w.now]
       ELSE w

\* A handleTrigger that computes the elapsed time from the FINISH payload.
handleTriggerPayloadClock(w, role) ==
    LET v == w.host.view
    IN IF v.raceState = "ARMED" /\ role = "START" THEN startTimer(w)
       ELSE IF v.raceState = "RUNNING" /\ role = "SPLIT" THEN w
       ELSE IF v.raceState = "RUNNING" /\ role = "FINISH"
       THEN LET w1 == stopTimer(w)
                w2 == [w1 EXCEPT !.host.raceState = "FINISHED"]
                w3 == broadcastState(w2, "LOBBY")
            IN [w3 EXCEPT !.host.elapsedTime = v.latestMessage.timestamp - v.startTime,
                          !.host.t1 = w.now]
       ELSE w

handleTrigger(w, role) ==
    LET v == w.host.view
    IN IF v.raceState = "ARMED" /\ role = "START" THEN startTimer(w)
       ELSE IF v.raceState = "RUNNING" /\ role = "SPLIT" THEN w
       ELSE IF v.raceState = "RUNNING" /\ role = "FINISH"
       THEN LET w1 == stopTimer(w)
                w2 == [w1 EXCEPT !.host.raceState = "FINISHED"]
                w3 == broadcastState(w2, "LOBBY")
            IN [w3 EXCEPT !.host.elapsedTime = w.now - v.startTime, !.host.t1 = w.now]
       ELSE w

\* The effect on [peerService.latestMessage, handleTrigger]. handled notes
\* that this latestMessage object has been given to handleTrigger.
triggerEffect(w) ==
    LET msg == w.host.view.latestMessage
    IN IF msg.type = "TRIGGER"
       THEN handleTrigger([w EXCEPT !.host.handled = TRUE], msg.role)
       ELSE w

\* The first half of a render of HostView: the cleanup of the previous
\* render's mount effect (clearInterval of the timerInterval it closed over),
\* then the commit of the queued state.
hostCommit(w) ==
    LET h0 == w.host
        h1 == IF h0.view.timerInterval # 0 THEN clearInterval(h0, h0.view.timerInterval) ELSE h0
    IN [w EXCEPT !.host = [h1 EXCEPT !.view = HostViewOf(h1), !.flush = FALSE,
                                     !.log = <<>>]]

\* One render of HostView. supabaseService is a new object on every render,
\* so handleTrigger and the mount effect's dependencies change on every
\* render and both effects run again.
hostRender(w) == triggerEffect(hostCommit(w))

\* setRole(peerId, role), closed over the rendered peers
RECURSIVE ClearOthers(_, _, _, _)
ClearOthers(w, ps, peerId, role) ==
    IF ps = <<>> THEN w
    ELSE LET p == Head(ps)
             w1 == IF p.role = role /\ p.id # peerId THEN assignRole(w, p.id, NONE) ELSE w
         IN ClearOthers(w1, Tail(ps), peerId, role)

\* A setRole that assigns without first clearing the previous holder; the
\* exclusivity of roles must not survive it.
setRoleKeepsHolder(w, peerId, role) == assignRole(w, peerId, role)

\* A setRole that tells the new holder first and the previous holder last.
setRoleAssignsFirst(w, peerId, role) ==
    ClearOthers(assignRole(w, peerId, role), w.host.view.peers, peerId, role)

setRole(w, peerId, role) ==
    assignRole(ClearOthers(w, w.host.view.peers, peerId, role), peerId, role)

\* An unmount whose cleanup does not clear the interval.
unmountHostKeepsInterval(w) ==
    LET h2 == [w.host EXCEPT !.raceState = "IDLE", !.startTime = 0, !.elapsedTime = 0,
                             !.timerInterval = 0, !.mounted = FALSE, !.log = <<>>]
    IN [w EXCEPT !.host = [h2 EXCEPT !.view = HostViewOf(h2)]]

\* HostView unmounts (the back button sets Home's mode to LANDING): the mount
\* effect's cleanup runs and the view's state is gone; the provider stays.
unmountHost(w) ==
    LET h0 == w.host
        h1 == IF h0.view.timerInterval # 0 THEN clearInterval(h0, h0.view.timerInterval) ELSE h0
        h2 == [h1 EXCEPT !.raceState = "IDLE", !.startTime = 0, !.elapsedTime = 0,
                         !.timerInterval = 0, !.mounted = FALSE, !.log = <<>>]
    IN [w EXCEPT !.host = [h2 EXCEPT !.view = HostViewOf(h2)]]

\* armSystem()
armSystem(w) ==
    broadcastState([w EXCEPT !.host.raceState = "ARMED", !.host.elapsedTime = 0], "ARMED")

\* A cancelRace that stops the timer and tells the gates but leaves the
\* race state as it is.
cancelRaceKeepsState(w) ==
    LET w1 == stopTimer(w)
        w3 == broadcastState(w1, "LOBBY")
    IN [w3 EXCEPT !.host.elapsedTime = 0]

\* cancelRace()
cancelRace(w) ==
    LET w1 == stopTimer(w)
        w2 == [w1 EXCEPT !.host.raceState = "IDLE"]
        w3 == broadcastState(w2, "LOBBY")
    IN [w3 EXCEPT !.host.elapsedTime = 0]

\* ===================================================== PeerProvider (gate)
\* handleMessage on a gate: setLatestMessage({...data}). sent counts the
\* TRIGGERs the gate has sent since it last received STATE_CHANGE("ARMED")
\* (an observation, not a field of the program).
gateHandleMessage(w, g, m) ==
    [w EXCEPT !.gates[g].latestMessage = m,
              !.gates[g].sent = IF m = StateChangeMsg("ARMED") THEN 0 ELSE @]

UsedConns(w) == {c \in ConnIds : w.conns[c].gate # "-"}
FreeConn(w) == CHOOSE c \in ConnIds \ UsedConns(w) : \A d \in ConnIds \ UsedConns(w) : c <= d

\* connectToHost(hostId, deviceName): peerRef.current.connect(hostId)
connectToHost(w, g) ==
    IF ~w.gates[g].up THEN w
    ELSE [w EXCEPT !.gates[g].connectionStatus = "Connecting to Host...",
                   !.conns[FreeConn(w)] = [gate |-> g, g |-> "pending", h |-> "none", error |-> ""]]

\* sendToHostInternal(data)
sendToHostInternal(w, g, m) ==
    LET conn == w.gates[g].hostConn
    IN IF conn # NoConn THEN SendToHostConn(w, conn, m) ELSE w

\* connectToHost, conn.on('open')
onHostConnOpen(w, c) ==
    LET g == w.conns[c].gate
        w1 == [w EXCEPT !.gates[g].connectionStatus = "Connected to Host",
                        !.gates[g].hostConn = c, !.conns[c].g = "open"]
    IN sendToHostInternal(w1, g, JoinMsg)

\* connectToHost, conn.on('data')
onHostConnData(w, c) ==
    gateHandleMessage([w EXCEPT !.toGate[c] = Tail(@)], w.conns[c].gate, Head(w.toGate[c]))

\* connectToHost, conn.on('close'): forget the host connection and schedule a
\* reconnect attempt. Messages still in flight to the gate are lost.
onHostConnClose(w, c) ==
    LET g == w.conns[c].gate
    IN [w EXCEPT !.gates[g].connectionStatus = "Disconnected from Host",
                 !.gates[g].hostConn = NoConn,
                 !.gates[g].retry = @ + 1,
                 !.conns[c].g = "closed",
                 !.toGate[c] = <<>>]

\* PeerJSError.type values a data connection's error event is given here.
ConnErrorTypes == {"peer-unavailable", "network", "webrtc"}

\* What the transport leaves of a connection after an error event: one that
\* was being opened has failed, with the error's type, and will not open.
connAfterError(conn, type) ==
    IF conn.g = "pending" THEN [conn EXCEPT !.g = "failed", !.error = type] ELSE conn

\* A connection error handler that schedules no reconnect attempt.
onHostConnErrorNoRetry(w, c, type) ==
    [w EXCEPT !.gates[w.conns[c].gate].connectionStatus = "Connection Error",
              !.conns[c] = connAfterError(@, type)]

\* connectToHost, conn.on('error'): a reconnect attempt is scheduled for
\* peer-unavailable and network; the host connection record is left alone.
onHostConnError(w, c, type) ==
    LET g == w.conns[c].gate
        w1 == [w EXCEPT !.gates[g].connectionStatus = "Connection Error",
                        !.conns[c] = connAfterError(@, type)]
    IN IF type \in {"peer-unavailable", "network"}
       THEN [w1 EXCEPT !.gates[g].retry = @ + 1]
       ELSE w1

\* The reconnect timer of the close handler.
retryConnect(w, g) ==
    LET w1 == [w EXCEPT !.gates[g].retry = @ - 1]
    IN IF w.gates[g].hostConn = NoConn /\ w.gates[g].up THEN connectToHost(w1, g) ELSE w1

\* sendTrigger(role, timestamp)
sendTrigger(w, g, role, timestamp) ==
    LET conn == w.gates[g].hostConn
    IN IF conn # NoConn THEN SendToHostConn(w, conn, TriggerMsg(role, timestamp)) ELSE w

\* ========================================================= useMotionService
\* armSystem(armed) of the motion service
motionArmSystem(w, g, armed) ==
    IF armed THEN [w EXCEPT !.gates[g].isArmed = TRUE, !.gates[g].motionDetected = FALSE]
    ELSE [w EXCEPT !.gates[g].isArmed = FALSE]

\* detectMotion's loop seeing motion: the isArmed it tests is the one the loop
\* closed over when the camera was started.
detectMotion(w, g) ==
    IF w.gates[g].loop = "armed"
    THEN [w EXCEPT !.gates[g].motionDetected = TRUE, !.gates[g].isArmed = FALSE]
    ELSE w

\* stopCamera(): stops the stream and cancels the loop's animation frame.
stopCamera(w, g) == [w EXCEPT !.gates[g].loop = "none"]

\* startCamera(video) succeeding: detectMotion(video) starts a loop.
startCamera(w, g) ==
    [w EXCEPT !.gates[g].loop = IF w.gates[g].view.isArmed THEN "armed" ELSE "unarmed"]

\* ================================================================ GateView
GateViewOf(gt) ==
    [status |-> gt.status, role |-> gt.role, latestMessage |-> gt.latestMessage,
     motionDetected |-> gt.motionDetected, isArmed |-> gt.isArmed]

\* A handleMotionTrigger that does nothing while the gate has no host
\* connection on record.
handleMotionTriggerNeedsConn(w, g, timestamp) ==
    LET v == w.gates[g].view
    IN IF v.status # "ARMED" \/ w.gates[g].hostConn = NoConn THEN w
       ELSE LET w1 == [w EXCEPT !.gates[g].status = "TRIGGERED"]
                w2 == [w1 EXCEPT !.gates[g].sent = IF v.role # NONE /\ @ < MaxSent THEN @ + 1 ELSE @]
            IN IF v.role # NONE THEN sendTrigger(w2, g, v.role, timestamp) ELSE w2

\* A handleMotionTrigger that sends whatever the role is.
handleMotionTriggerAnyRole(w, g, timestamp) ==
    LET v == w.gates[g].view
    IN IF v.status # "ARMED" THEN w
       ELSE LET w1 == [w EXCEPT !.gates[g].status = "TRIGGERED"]
                w2 == [w1 EXCEPT !.gates[g].sent =
                          IF w.gates[g].hostConn # NoConn /\ @ < MaxSent THEN @ + 1 ELSE @]
            IN sendTrigger(w2, g, v.role, timestamp)

\* handleMotionTrigger(), closed over the rendered status and role
handleMotionTrigger(w, g, timestamp) ==
    LET v == w.gates[g].view
    IN IF v.status # "ARMED" THEN w
       ELSE LET w1 == [w EXCEPT !.gates[g].status = "TRIGGERED"]
                sends == v.role # NONE /\ w.gates[g].hostConn # NoConn
                w2 == [w1 EXCEPT !.gates[g].sent = IF sends /\ @ < MaxSent THEN @ + 1 ELSE @]
            IN IF v.role # NONE THEN sendTrigger(w2, g, v.role, timestamp) ELSE w2

\* A message effect that applies STATE_CHANGE("ARMED") in LOBBY only.
messageEffectFromLobbyOnly(w, g) ==
    LET msg == w.gates[g].view.latestMessage
    IN IF msg.type = "ROLE_ASSIGN" THEN [w EXCEPT !.gates[g].role = msg.role]
       ELSE IF msg.type = "STATE_CHANGE" /\ msg.state = "ARMED"
       THEN IF w.gates[g].view.status = "LOBBY"
            THEN motionArmSystem([w EXCEPT !.gates[g].status = "ARMED"], g, TRUE)
            ELSE w
       ELSE IF msg.type \in {"STATE_CHANGE", "RESET"}
       THEN motionArmSystem([w EXCEPT !.gates[g].status = "LOBBY"], g, FALSE)
       ELSE w

\* A message effect in which ROLE_ASSIGN also takes the gate back to LOBBY.
messageEffectRoleResets(w, g) ==
    LET msg == w.gates[g].view.latestMessage
    IN IF msg.type = "ROLE_ASSIGN"
       THEN motionArmSystem([w EXCEPT !.gates[g].role = msg.role, !.gates[g].status = "LOBBY"], g, FALSE)
       ELSE IF msg.type = "STATE_CHANGE" /\ msg.state = "ARMED"
       THEN motionArmSystem([w EXCEPT !.gates[g].status = "ARMED"], g, TRUE)
       ELSE IF msg.type \in {"STATE_CHANGE", "RESET"}
       THEN motionArmSystem([w EXCEPT !.gates[g].status = "LOBBY"], g, FALSE)
       ELSE w

\* The effect on [peerService.latestMessage, motionService].
messageEffect(w, g) ==
    LET msg == w.gates[g].view.latestMessage
    IN IF msg.type = "ROLE_ASSIGN" THEN [w EXCEPT !.gates[g].role = msg.role]
       ELSE IF msg.type = "STATE_CHANGE" /\ msg.state = "ARMED"
       THEN motionArmSystem([w EXCEPT !.gates[g].status = "ARMED"], g, TRUE)
       ELSE IF msg.type = "STATE_CHANGE" /\ msg.state = "LOBBY"
       THEN motionArmSystem([w EXCEPT !.gates[g].status = "LOBBY"], g, FALSE)
       ELSE IF msg.type = "RESET"
       THEN motionArmSystem([w EXCEPT !.gates[g].status = "LOBBY"], g, FALSE)
       ELSE w

\* The effect on [motionService.motionDetected, status, handleMotionTrigger].
motionEffect(w, g, timestamp) ==
    LET v == w.gates[g].view
    IN IF v.motionDetected /\ v.status = "ARMED" THEN handleMotionTrigger(w, g, timestamp) ELSE w

\* One render of GateView. motionService and supabaseService are new objects
\* on every render, so every effect runs again: the cleanups first (stopCamera,
\* clearTimeout), then the message effect, the motion effect and the effect
\* that schedules startCamera.
gateCommit(w, g) ==
    LET w1 == stopCamera(w, g)
    IN [w1 EXCEPT !.gates[g].view = GateViewOf(w1.gates[g]), !.gates[g].flush = FALSE]

gateRender(w, g, timestamp) ==
    LET w3 == messageEffect(gateCommit(w, g), g)
        w4 == motionEffect(w3, g, timestamp)
    IN [w4 EXCEPT !.gates[g].camTimer = TRUE]

\* ============================================== PeerProvider: init, destroy
\* The transport identity of the host's engine. objs are the Peer objects
\* init has created, each with the id it asked for and the init call whose
\* resolve and reject its handlers closed over; calls are the promises init
\* has returned (then/catch: the call a settled promise is forwarded to);
\* timers are the pending retry timers of the error handler, by call.
MaxPeers == 3     \* Peer objects created over the whole run
MaxCalls == 4     \* calls of init over the whole run
PeerIds == {1, 2} \* the ids generateShortId returns
NoId == 0
NoPeer == 0
NoCall == 0
PeerObjs == 1..MaxPeers
Calls == 1..MaxCalls

\* PeerJSError.type values a Peer's error event is given here.
PeerErrorTypes == {"unavailable-id", "server-error", "network", "browser-incompatible"}

InitEngine ==
    [peerRef |-> NoPeer, isHostRef |-> FALSE, isConnected |-> FALSE, myId |-> NoId,
     connectionStatus |-> "Disconnected",
     objs |-> [p \in PeerObjs |-> [st |-> "none", id |-> NoId, call |-> NoCall]],
     calls |-> [k \in Calls |-> [st |-> "none", value |-> NoId, error |-> "",
                                 id |-> NoId, seen |-> NoId,
                                 then |-> NoCall, catch |-> NoCall]],
     timers |-> {}]

FreePeer(e) == CHOOSE p \in PeerObjs : e.objs[p].st = "none" /\ \A q \in 1..(p - 1) : e.objs[q].st # "none"
FreeCall(e) == CHOOSE k \in Calls : e.calls[k].st = "none" /\ \A j \in 1..(k - 1) : e.calls[j].st # "none"
HasFreePeer(e) == \E p \in PeerObjs : e.objs[p].st = "none"
HasFreeCall(e) == \E k \in Calls : e.calls[k].st = "none"

\* init's first test: the engine has an identity on record, in host mode,
\* and is connected; init then returns the myId it closed over.
Reuses(e) == e.peerRef # NoPeer /\ e.isHostRef /\ e.isConnected

\* resolve(value) of call k, and what .then(resolve) forwards.
RECURSIVE resolveCall(_, _, _)
resolveCall(calls, k, value) ==
    IF k = NoCall \/ calls[k].st # "pending" THEN calls
    ELSE resolveCall([calls EXCEPT ![k].st = "resolved", ![k].value = value],
                     calls[k].then, value)

\* reject(err) of call k, and what .catch(reject) forwards.
RECURSIVE rejectCall(_, _, _)
rejectCall(calls, k, error) ==
    IF k = NoCall \/ calls[k].st # "pending" THEN calls
    ELSE rejectCall([calls EXCEPT ![k].st = "rejected", ![k].error = error],
                    calls[k].catch, error)

\* An init whose promise is forwarded to nobody, whatever the caller asked.
initForwardsNothing(w, id, fresh, seen, then, catch) ==
    LET e == w.host.engine
        k == FreeCall(e)
        p == FreePeer(e)
        call == [st |-> "pending", value |-> NoId, error |-> "", id |-> id,
                 seen |-> seen, then |-> NoCall, catch |-> NoCall]
        e1 == [e EXCEPT !.calls[k] = call]
    IN IF Reuses(e)
       THEN [w EXCEPT !.host.engine = [e1 EXCEPT !.calls = resolveCall(@, k, seen)]]
       ELSE LET e2 == IF e.peerRef # NoPeer
                      THEN [e1 EXCEPT !.objs[e.peerRef].st = "destroyed", !.peerRef = NoPeer]
                      ELSE e1
                e3 == [e2 EXCEPT !.isHostRef = TRUE,
                                 !.connectionStatus = "Initializing Peer...",
                                 !.objs[p] = [st |-> "opening",
                                              id |-> IF id # NoId THEN id ELSE fresh,
                                              call |-> k]]
            IN [w EXCEPT !.host.engine = e3, !.host.up = FALSE]

\* init(true, id): id is NoId when the caller gives none, fresh is what
\* generateShortId returns if it is called, seen the myId the init in use
\* closed over; the promise returned is forwarded to then / catch.
init(w, id, fresh, seen, then, catch) ==
    LET e == w.host.engine
        k == FreeCall(e)
        p == FreePeer(e)
        call == [st |-> "pending", value |-> NoId, error |-> "", id |-> id,
                 seen |-> seen, then |-> then, catch |-> catch]
        e1 == [e EXCEPT !.calls[k] = call]
    IN IF Reuses(e)
       THEN [w EXCEPT !.host.engine = [e1 EXCEPT !.calls = resolveCall(@, k, seen)]]
       ELSE LET e2 == IF e.peerRef # NoPeer
                      THEN [e1 EXCEPT !.objs[e.peerRef].st = "destroyed", !.peerRef = NoPeer]
                      ELSE e1
                e3 == [e2 EXCEPT !.isHostRef = TRUE,
                                 !.connectionStatus = "Initializing Peer...",
                                 !.objs[p] = [st |-> "opening",
                                              id |-> IF id # NoId THEN id ELSE fresh,
                                              call |-> k]]
            IN [w EXCEPT !.host.engine = e3, !.host.up = FALSE]

\* newPeer.on('open')
onPeerOpen(w, p) ==
    LET e == w.host.engine
        openedId == e.objs[p].id
    IN [w EXCEPT !.host.up = TRUE,
                 !.host.engine = [e EXCEPT !.myId = openedId,
                                           !.isConnected = TRUE,
                                           !.connectionStatus = "Online",
                                           !.peerRef = p,
                                           !.objs[p].st = "open",
                                           !.calls = resolveCall(@, e.objs[p].call, openedId)]]

\* newPeer.on('disconnected'): peerRef.current.reconnect() if there is one.
onPeerDisconnected(w, p) ==
    LET e == w.host.engine
        e1 == [e EXCEPT !.isConnected = FALSE, !.connectionStatus = "Disconnected",
                        !.objs[p].st = "disconnected"]
    IN [w EXCEPT !.host.engine =
            IF e1.peerRef # NoPeer /\ e1.objs[e1.peerRef].st = "disconnected"
            THEN [e1 EXCEPT !.objs[e1.peerRef].st = "reconnecting"]
            ELSE e1]

\* newPeer.on('close')
onPeerClose(w, p) ==
    [w EXCEPT !.host.engine = [@ EXCEPT !.isConnected = FALSE,
                                        !.connectionStatus = "Connection closed",
                                        !.objs[p].st = "closed"]]

\* What the transport leaves of a Peer after an error event.
AfterError(st) == IF st = "opening" THEN "failed" ELSE "disconnected"

\* newPeer.on('error'): a new id and init at once for unavailable-id, a retry
\* timer for server-error and network, reject for the rest.
onPeerError(w, p, type, fresh) ==
    LET e == w.host.engine
        k == e.objs[p].call
        e1 == [e EXCEPT !.connectionStatus = "Error: " \o type,
                        !.objs[p].st = AfterError(@)]
        w1 == [w EXCEPT !.host.engine = e1]
    IN IF type = "unavailable-id"
       THEN init(w1, fresh, fresh, e.calls[k].seen, k, k)
       ELSE IF type \in {"server-error", "network"}
       THEN [w1 EXCEPT !.host.engine.timers = @ \cup {k}]
       ELSE [w1 EXCEPT !.host.engine.calls = rejectCall(@, k, type)]

\* A retry timer that runs init again even though the engine is connected.
onInitRetryAlways(w, k, fresh) ==
    LET w1 == [w EXCEPT !.host.engine.timers = @ \ {k}]
        e == w.host.engine
    IN IF HasFreeCall(e) /\ HasFreePeer(e)
       THEN init(w1, e.calls[k].id, fresh, e.calls[k].seen, NoCall, k)
       ELSE w1

\* The retry timer of call k's error handler.
onInitRetry(w, k, fresh) ==
    LET w1 == [w EXCEPT !.host.engine.timers = @ \ {k}]
        e == w.host.engine
    IN IF ~e.isConnected
       THEN init(w1, e.calls[k].id, fresh, e.calls[k].seen, NoCall, k)
       ELSE w1

\* A destroy that leaves the registry and the trigger events as they are.
destroyKeepsRegistry(w) ==
    LET e == w.host.engine
    IN IF e.peerRef = NoPeer THEN w
       ELSE [w EXCEPT !.host.up = FALSE,
                      !.host.engine = [e EXCEPT !.objs[e.peerRef].st = "destroyed",
                                                !.peerRef = NoPeer,
                                                !.isConnected = FALSE,
                                                !.connectionStatus = "Disconnected"]]

\* destroy() on the host.
destroy(w) ==
    LET e == w.host.engine
    IN IF e.peerRef = NoPeer THEN w
       ELSE [w EXCEPT !.host.up = FALSE,
                      !.host.peersRef = <<>>,
                      !.host.triggerEvents = <<>>,
                      !.host.engine = [e EXCEPT !.objs[e.peerRef].st = "destroyed",
                                                !.peerRef = NoPeer,
                                                !.isConnected = FALSE,
                                                !.connectionStatus = "Disconnected"]]

\* ============================================================ initial state
InitHost ==
    LET h == [up |-> FALSE, peersRef |-> <<>>, latestMessage |-> NoMessage,
              raceState |-> "IDLE", startTime |-> 0, elapsedTime |-> 0,
              timerInterval |-> 0, samplers |-> {}]
    IN [up |-> h.up, peersRef |-> h.peersRef, latestMessage |-> h.latestMessage,
        raceState |-> h.raceState, startTime |-> h.startTime,
        elapsedTime |-> h.elapsedTime, timerInterval |-> h.timerInterval,
        samplers |-> h.samplers, view |-> HostViewOf(h),
        handled |-> FALSE, flush |-> FALSE, t0 |-> 0, t1 |-> 0,
        mounted |-> FALSE, triggerEvents |-> <<>>, log |-> <<>>,
        engine |-> InitEngine, destroyed |-> FALSE]

InitGate ==
    LET gt == [status |-> "LOBBY", role |-> NONE, latestMessage |-> NoMessage,
               motionDetected |-> FALSE, isArmed |-> FALSE]
    IN [up |-> FALSE, hostConn |-> NoConn, latestMessage |-> gt.latestMessage,
        status |-> gt.status, role |-> gt.role, isArmed |-> gt.isArmed,
        motionDetected |-> gt.motionDetected, view |-> GateViewOf(gt),
        loop |-> "none", camTimer |-> FALSE, camFailed |-> FALSE, retry |-> 0, flush |-> FALSE, sent |-> 0,
        connectionStatus |-> "Disconnected"]

Init ==
    /\ host = InitHost
    /\ gates = [g \in Gates |-> InitGate]
    /\ conns = [c \in ConnIds |-> [gate |-> "-", g |-> "none", h |-> "none", error |-> ""]]
    /\ toHost = [c \in ConnIds |-> <<>>]
    /\ toGate = [c \in ConnIds |-> <<>>]
    /\ now = 0

\* The screen shows what the last render committed and nothing is queued.
HostQuiescent == host.view = HostViewOf(host)
GateQuiescent(g) == gates[g].view = GateViewOf(gates[g])

\* React renders synchronously after a click handler: until that render has
\* run, nothing else does.
Flushing == host.flush \/ \E g \in Gates : gates[g].flush

\* ================================================================= actions
\* Home.startHost: init(true), whose Peer opens at once with the first id
\* generateShortId can return, and HostView mounts.
StartHost ==
    /\ ~Flushing
    /\ ~host.up
    /\ host.engine = InitEngine
    /\ LET w == onPeerOpen(init(World, NoId, 1, NoId, NoCall, NoCall), 1)
       IN SetWorld([w EXCEPT !.host.mounted = TRUE])

\* Home.joinSession: init(false) resolves, connectToHost, GateView mounts
\* (its first render schedules startCamera).
JoinSession(g) ==
    /\ ~Flushing
    /\ host.up
    /\ ~gates[g].up
    /\ UsedConns(World) # ConnIds
    /\ SetWorld(connectToHost([World EXCEPT !.gates[g].up = TRUE, !.gates[g].camTimer = TRUE], g))

\* destroy() on a gate: its identity and its host connection record.
gateDestroy(w, g) ==
    IF ~w.gates[g].up THEN w
    ELSE [w EXCEPT !.gates[g].up = FALSE,
                   !.gates[g].hostConn = NoConn,
                   !.gates[g].connectionStatus = "Disconnected"]

\* ------------------------------------------------ the transport identity
\* Home awaits the init it called (the call forwarded to nobody): when that
\* promise resolves, setMode('HOST_VIEW') mounts HostView.
TopLevel(e, k) == e.calls[k].st # "none" /\ e.calls[k].then = NoCall /\ e.calls[k].catch = NoCall

homeContinues(w0, w1) ==
    IF \E k \in Calls : /\ TopLevel(w1.host.engine, k)
                        /\ w0.host.engine.calls[k].st # "resolved"
                        /\ w1.host.engine.calls[k].st = "resolved"
    THEN [w1 EXCEPT !.host.mounted = TRUE]
    ELSE w1

\* Home.startHost, the Start Host button: disabled while an init is awaited
\* (isBusy), shown while no view is mounted.
InitClick ==
    /\ ~Flushing
    /\ ~host.mounted
    /\ \A k \in Calls : TopLevel(host.engine, k) => host.engine.calls[k].st # "pending"
    /\ HasFreeCall(host.engine) /\ HasFreePeer(host.engine)
    /\ \E fresh \in PeerIds :
         SetWorld(homeContinues(World,
                    init([World EXCEPT !.host.destroyed = FALSE],
                         NoId, fresh, host.engine.myId, NoCall, NoCall)))

\* Events of a Peer object.
PeerOpen(p) ==
    /\ ~Flushing
    /\ host.engine.objs[p].st \in {"opening", "reconnecting"}
    /\ SetWorld(homeContinues(World, onPeerOpen(World, p)))

PeerDisconnected(p) ==
    /\ ~Flushing
    /\ host.engine.objs[p].st = "open"
    /\ SetWorld(onPeerDisconnected(World, p))

PeerClose(p) ==
    /\ ~Flushing
    /\ host.engine.objs[p].st = "destroyed"
    /\ SetWorld(onPeerClose(World, p))

PeerError(p, type) ==
    /\ ~Flushing
    /\ host.engine.objs[p].st \in {"opening", "reconnecting"}
    /\ type = "unavailable-id" =>
         /\ host.engine.objs[p].st = "opening"
         /\ HasFreeCall(host.engine)
         /\ HasFreePeer(host.engine) \/ Reuses(host.engine)
    /\ \E fresh \in PeerIds :
         SetWorld(homeContinues(World, onPeerError(World, p, type, fresh)))

\* The 3000 ms timer of the error handler fires.
InitRetry(k) ==
    /\ ~Flushing
    /\ k \in host.engine.timers
    /\ ~host.engine.isConnected => HasFreeCall(host.engine) /\ HasFreePeer(host.engine)
    /\ \E fresh \in PeerIds :
         SetWorld(homeContinues(World, onInitRetry(World, k, fresh)))

\* The application calls destroy(). destroyed notes that it did and has not
\* called init since (an observation, not a field of the program).
Destroy ==
    /\ ~Flushing
    /\ SetWorld([destroy(World) EXCEPT !.host.destroyed = TRUE])

GateDestroy(g) ==
    /\ ~Flushing
    /\ SetWorld(gateDestroy(World, g))

\* Transport events on the host's end of a connection.
HostConnOpen(c) ==
    /\ ~Flushing
    /\ host.up
    /\ conns[c].gate # "-"
    /\ conns[c].h = "none"
    /\ conns[c].g \notin {"closed", "failed"}
    /\ SetWorld(onIncomingOpen(World, c))

HostConnData(c) ==
    /\ ~Flushing
    /\ host.up
    /\ conns[c].h = "open"
    /\ toHost[c] # <<>>
    /\ Head(toHost[c]).type = "TRIGGER" => Len(host.triggerEvents) < MaxEvents
    /\ SetWorld(onIncomingData(World, c))

HostConnClose(c) ==
    /\ ~Flushing
    /\ conns[c].h = "open"
    /\ SetWorld(onIncomingClose(World, c))

\* Transport events on the gate's end of a connection.
GateConnOpen(c) ==
    /\ ~Flushing
    /\ conns[c].g = "pending"
    /\ Fits(onHostConnOpen(World, c))
    /\ SetWorld(onHostConnOpen(World, c))

GateConnData(c) ==
    /\ ~Flushing
    /\ conns[c].g = "open"
    /\ toGate[c] # <<>>
    /\ SetWorld(onHostConnData(World, c))

GateConnClose(c) ==
    /\ ~Flushing
    /\ conns[c].g = "open"
    /\ gates[conns[c].gate].retry < MaxRetry
    /\ SetWorld(onHostConnClose(World, c))

\* The error event of a connection that has not been closed.
GateConnError(c, type) ==
    /\ ~Flushing
    /\ conns[c].g \in {"pending", "open"}
    /\ gates[conns[c].gate].retry < MaxRetry
    /\ SetWorld(onHostConnError(World, c, type))

\* The error event and the close event of one open connection, one after the
\* other: each handler schedules its own reconnect attempt.
GateConnErrorThenClose(c, type) ==
    /\ ~Flushing
    /\ conns[c].g = "open"
    /\ gates[conns[c].gate].retry + 2 <= MaxTimers
    /\ SetWorld(onHostConnClose(onHostConnError(World, c, type), c))

RetryTimer(g) ==
    /\ ~Flushing
    /\ gates[g].retry > 0
    /\ (gates[g].hostConn = NoConn /\ gates[g].up) => UsedConns(World) # ConnIds
    /\ SetWorld(retryConnect(World, g))

\* React renders HostView (a state change, or the hooks it uses changing).
HostRender ==
    /\ host.mounted
    /\ \A g \in Gates : ~gates[g].flush
    /\ Fits(hostRender(World))
    /\ SetWorld(hostRender(World))

\* The sampler's 10 ms callback: setElapsedTime(Date.now() - now).
SamplerTick ==
    /\ ~Flushing
    /\ host.mounted
    /\ \E s \in host.samplers :
         SetWorld([World EXCEPT !.host.elapsedTime = now - s.base])

ClockTick ==
    /\ ~Flushing
    /\ now < MaxTime
    /\ SetWorld([World EXCEPT !.now = now + 1])

\* The operator's buttons: each handler is the one of the last render.
HostClick(w) ==
    /\ Fits(w)
    /\ SetWorld([w EXCEPT !.host.flush = TRUE])

\* The state a click handler starts from.
AtClick == [World EXCEPT !.host.log = <<>>]

ArmClick ==
    /\ ~Flushing
    /\ host.mounted /\ HostQuiescent
    /\ armVisible(host.view.raceState)
    /\ canStart(host.view.peers)
    /\ HostClick(armSystem(AtClick))

CancelClick ==
    /\ ~Flushing
    /\ host.mounted /\ HostQuiescent
    /\ cancelVisible(host.view.raceState)
    /\ HostClick(cancelRace(AtClick))

SetRoleClick(role) ==
    /\ ~Flushing
    /\ host.mounted /\ HostQuiescent
    /\ \E i \in Indices(host.view.peers) : host.view.peers[i].role = NONE
    /\ LET k == FindByRole(host.view.peers, NONE)
       IN HostClick(setRole(AtClick, host.view.peers[k].id, role))

ResetClick ==
    /\ ~Flushing
    /\ host.mounted /\ HostQuiescent
    /\ Len(host.view.peers) > 0
    /\ HostClick(broadcastReset(AtClick))

\* The back button of HostView.
HostBack ==
    /\ ~Flushing
    /\ host.mounted /\ HostQuiescent
    /\ SetWorld(unmountHost(World))

\* React renders GateView.
GateRender(g) ==
    /\ gates[g].up
    /\ ~host.flush
    /\ \A o \in Gates \ {g} : ~gates[o].flush
    /\ \E ts \in 1..MaxStamp :
         /\ Fits(gateRender(World, g, ts))
         /\ SetWorld(gateRender(World, g, ts))

\* The detection loop sees motion in the region of interest.
MotionFire(g) ==
    /\ ~Flushing
    /\ gates[g].loop = "armed"
    /\ SetWorld(detectMotion(World, g))

\* The MANUAL TRIGGER button, shown while the rendered status is ARMED.
ManualTrigger(g) ==
    /\ ~Flushing
    /\ gates[g].up /\ GateQuiescent(g)
    /\ gates[g].view.status = "ARMED"
    /\ \E ts \in 1..MaxStamp :
         LET w == handleMotionTrigger(World, g, ts)
         IN Fits(w) /\ SetWorld([w EXCEPT !.gates[g].flush = TRUE])

\* The startVideo timeout fires and getUserMedia resolves.
CameraStart(g) ==
    /\ ~Flushing
    /\ gates[g].camTimer
    /\ SetWorld(startCamera([World EXCEPT !.gates[g].camTimer = FALSE,
                                           !.gates[g].camFailed = FALSE], g))

\* The startVideo timeout fires and getUserMedia rejects.
CameraFail(g) ==
    /\ ~Flushing
    /\ gates[g].camTimer
    /\ SetWorld([World EXCEPT !.gates[g].camTimer = FALSE, !.gates[g].camFailed = TRUE])

\* A gate calls sendTrigger(role, timestamp): the gate's own state is left
\* out, so that any TRIGGER can reach the host at any time.
GateSendsTrigger(g, role, ts) ==
    /\ ~Flushing
    /\ gates[g].up
    /\ Fits(sendTrigger(World, g, role, ts))
    /\ SetWorld(sendTrigger(World, g, role, ts))

\* ------------------------------------------------------------ whole system
Next ==
    \/ StartHost
    \/ \E g \in Gates : JoinSession(g)
    \/ \E c \in ConnIds : HostConnOpen(c)
    \/ \E c \in ConnIds : HostConnData(c)
    \/ \E c \in ConnIds : HostConnClose(c)
    \/ \E c \in ConnIds : GateConnOpen(c)
    \/ \E c \in ConnIds : GateConnData(c)
    \/ \E c \in ConnIds : GateConnClose(c)
    \/ \E c \in ConnIds, type \in ConnErrorTypes : GateConnError(c, type)
    \/ \E g \in Gates : RetryTimer(g)
    \/ HostRender
    \/ SamplerTick
    \/ ClockTick
    \/ ArmClick
    \/ CancelClick
    \/ \E role \in RoleButtons : SetRoleClick(role)
    \/ ResetClick
    \/ HostBack
    \/ \E g \in Gates : GateRender(g)
    \/ \E g \in Gates : MotionFire(g)
    \/ \E g \in Gates : ManualTrigger(g)
    \/ \E g \in Gates : CameraStart(g)
    \/ \E g \in Gates : CameraFail(g)

Spec == Init /\ [][Next]_vars

\* ------------------------------------- the race, two gates, no clock: g1 is
\* the gate that sends triggers (of any role), g2 only listens.
NextRace ==
    \/ StartHost
    \/ \E g \in Gates : JoinSession(g)
    \/ \E c \in ConnIds : HostConnOpen(c)
    \/ \E c \in ConnIds : HostConnData(c)
    \/ \E c \in ConnIds : GateConnOpen(c)
    \/ \E c \in ConnIds : GateConnData(c)
    \/ HostRender
    \/ SamplerTick
    \/ ArmClick
    \/ CancelClick
    \/ \E role \in RoleButtons : SetRoleClick(role)
    \/ ResetClick
    \/ \E role \in RoleButtons : GateSendsTrigger("g1", role, 1)

SpecRace == Init /\ [][NextRace]_vars

\* ------------------------------------- the race against the host's clock:
\* one gate, every role and payload timestamp.
NextTimed ==
    \/ StartHost
    \/ JoinSession("g1")
    \/ \E c \in ConnIds : HostConnOpen(c)
    \/ \E c \in ConnIds : HostConnData(c)
    \/ \E c \in ConnIds : GateConnOpen(c)
    \/ \E c \in ConnIds : GateConnData(c)
    \/ HostRender
    \/ SamplerTick
    \/ ClockTick
    \/ ArmClick
    \/ CancelClick
    \/ \E role \in RoleButtons : SetRoleClick(role)
    \/ ResetClick
    \/ \E role \in GateRole, ts \in 1..MaxStamp : GateSendsTrigger("g1", role, ts)

SpecTimed == Init /\ [][NextTimed]_vars

\* ------------------------------------- one gate with its detector, no clock
NextGate ==
    \/ StartHost
    \/ JoinSession("g1")
    \/ \E c \in ConnIds : HostConnOpen(c)
    \/ \E c \in ConnIds : HostConnData(c)
    \/ \E c \in ConnIds : GateConnOpen(c)
    \/ \E c \in ConnIds : GateConnData(c)
    \/ HostRender
    \/ ArmClick
    \/ CancelClick
    \/ \E role \in RoleButtons : SetRoleClick(role)
    \/ ResetClick
    \/ GateRender("g1")
    \/ MotionFire("g1")
    \/ ManualTrigger("g1")
    \/ CameraStart("g1")
    \/ CameraFail("g1")

SpecGate == Init /\ [][NextGate]_vars

\* ------------------------------------- the registry: two gates connect, g1
\* also loses its connection and reconnects, the operator assigns roles
NextRoles ==
    \/ StartHost
    \/ \E g \in Gates : JoinSession(g)
    \/ \E c \in ConnIds : HostConnOpen(c)
    \/ \E c \in ConnIds : HostConnData(c)
    \/ \E c \in ConnIds : conns[c].gate = "g1" /\ HostConnClose(c)
    \/ \E c \in ConnIds : GateConnOpen(c)
    \/ \E c \in ConnIds : GateConnData(c)
    \/ \E c \in ConnIds : conns[c].gate = "g1" /\ GateConnClose(c)
    \/ \E g \in Gates : RetryTimer(g)
    \/ HostRender
    \/ \E role \in RoleButtons : SetRoleClick(role)

SpecRoles == Init /\ [][NextRoles]_vars

\* ------------------------------------- the arm button while the registry
\* changes: one gate that connects, takes a role, drops and reconnects
NextArm ==
    \/ StartHost
    \/ JoinSession("g1")
    \/ \E c \in ConnIds : HostConnOpen(c)
    \/ \E c \in ConnIds : HostConnData(c)
    \/ \E c \in ConnIds : HostConnClose(c)
    \/ \E c \in ConnIds : GateConnOpen(c)
    \/ \E c \in ConnIds : GateConnData(c)
    \/ \E c \in ConnIds : GateConnClose(c)
    \/ RetryTimer("g1")
    \/ HostRender
    \/ \E role \in RoleButtons : SetRoleClick(role)
    \/ ArmClick
    \/ CancelClick

SpecArm == Init /\ [][NextArm]_vars

\* ============================================================== properties
\* Connection c carries one more message to its gate after the step, m last.
Got(c, m) ==
    /\ Len(toGate'[c]) = Len(toGate[c]) + 1
    /\ toGate'[c][Len(toGate'[c])] = m

\* The step sent m to every peer of the registry.
AllPeersGot(m) == \A i \in Indices(host.peersRef) : Got(host.peersRef[i].conn, m)

\* What the handlers of the render about to run close over.
Rendered == hostCommit(World).host.view

\* The status in which handleTrigger acts on a TRIGGER of the role.
Expected(raceState, role) ==
    \/ raceState = "ARMED" /\ role = "START"
    \/ raceState = "RUNNING" /\ role \in {"FINISH", "SPLIT"}

\* C1: no two entries of the registry that belong to different peers hold the
\* same role other than NONE, however role assignments interleave with
\* connections, disconnections and reconnections.
C1_RoleExclusive ==
    \A i, j \in Indices(host.peersRef) :
        (/\ host.peersRef[i].id # host.peersRef[j].id
         /\ host.peersRef[i].role # NONE)
        => host.peersRef[i].role # host.peersRef[j].role

\* A role has moved: one peer holds START while another, still registered, is
\* being told that it holds NONE.
C1_Witness ==
    \E i, j \in Indices(host.peersRef) :
        /\ host.peersRef[i].id # host.peersRef[j].id
        /\ host.peersRef[i].role = "START"
        /\ host.peersRef[j].role = NONE
        /\ toGate[host.peersRef[j].conn] = <<RoleAssignMsg(NONE)>>

\* C2: a render that hands handleTrigger a TRIGGER whose role is not the one
\* expected for the rendered status changes nothing but the render itself: the
\* race state, the start time, the elapsed time and the sampler are as the
\* commit left them, and no message is sent.
C2_UnexpectedTriggerIgnored ==
    [][(/\ HostRender
        /\ Rendered.latestMessage.type = "TRIGGER"
        /\ ~Expected(Rendered.raceState, Rendered.latestMessage.role))
       => /\ host' = [hostCommit(World).host EXCEPT !.handled = TRUE]
          /\ toGate' = toGate]_vars

\* handleTrigger has run on a FINISH while the race was ARMED, and on a START
\* while it was RUNNING.
C2_Witness ==
    /\ host.handled
    /\ host.view.latestMessage = host.latestMessage
    /\ host.view.latestMessage.type = "TRIGGER"
    /\ host.view.latestMessage.role = "FINISH"
    /\ host.view.raceState = "ARMED"
    /\ host.raceState = "ARMED"
    /\ Len(host.peersRef) > 0

\* C3: between two consecutive STATE_CHANGE("ARMED") messages a gate receives,
\* it sends at most one TRIGGER.
C3_OneTriggerPerArming == \A g \in Gates : gates[g].sent <= 1

\* C4: a TRIGGER that handleTrigger has already been given (applied or
\* ignored) causes no later transition: a render that finds the latest message
\* already handled leaves the race state as it was.
C4_HandledTriggerInert ==
    [][(HostRender /\ host.handled) => host'.raceState = host.raceState]_vars

\* The registry has a peer whose role is START.
HasStartPeer == \E i \in Indices(host.peersRef) : host.peersRef[i].role = "START"

C6_ArmFromIdleOrFinished ==
    [][(\/ ArmClick
        \/ host'.raceState = "ARMED" /\ host.raceState # "ARMED"
        \/ \E c \in ConnIds : Got(c, StateChangeMsg("ARMED")))
       => /\ host.raceState \in {"IDLE", "FINISHED"}
          /\ host'.raceState = "ARMED"
          /\ host'.elapsedTime = 0
          /\ AllPeersGot(StateChangeMsg("ARMED"))]_vars

\* The operator has just armed again after a finished race, with two peers.
C6_Witness ==
    /\ host.flush
    /\ host.view.raceState = "FINISHED"
    /\ host.raceState = "ARMED"
    /\ host.elapsedTime = 0
    /\ Len(host.peersRef) = 2
    /\ \A i \in Indices(host.peersRef) :
          toGate[host.peersRef[i].conn] = <<StateChangeMsg("ARMED")>>

\* C7: handling TRIGGER(START) while ARMED sets RUNNING, sets the start time to
\* the host's clock at that moment and leaves exactly one sampler running,
\* the one timerInterval names.
C7_StartTrigger ==
    [][(/\ HostRender
        /\ Rendered.latestMessage.type = "TRIGGER"
        /\ Rendered.latestMessage.role = "START"
        /\ Rendered.raceState = "ARMED")
       => /\ host'.raceState = "RUNNING"
          /\ host'.startTime = now
          /\ Cardinality(host'.samplers) = 1
          /\ \A s \in host'.samplers : s.base = now /\ s.id = host'.timerInterval]_vars

\* A START whose payload says 1 has been handled at host time 2.
C7_Witness ==
    /\ host.handled
    /\ host.latestMessage = TriggerMsg("START", 1)
    /\ host.raceState = "RUNNING"
    /\ host.startTime = 2
    /\ Cardinality(host.samplers) = 1

\* C8: handling TRIGGER(FINISH) while RUNNING stops the sampler, sets FINISHED
\* and sends STATE_CHANGE("LOBBY") to every registered peer; and the host
\* leaves FINISHED only by the operator arming again.
C8_FinishTrigger ==
    [][/\ (/\ HostRender
            /\ Rendered.latestMessage.type = "TRIGGER"
            /\ Rendered.latestMessage.role = "FINISH"
            /\ Rendered.raceState = "RUNNING")
           => /\ host'.samplers = {}
              /\ host'.timerInterval = 0
              /\ host'.raceState = "FINISHED"
              /\ AllPeersGot(StateChangeMsg("LOBBY"))
       /\ (host.raceState = "FINISHED" /\ host'.raceState # "FINISHED")
           => ArmClick]_vars

\* A race with two peers has just finished: no sampler, both peers are being
\* told LOBBY.
C8_Witness ==
    /\ host.handled
    /\ host.latestMessage.role = "FINISH"
    /\ host.view.raceState = "RUNNING"
    /\ host.raceState = "FINISHED"
    /\ host.samplers = {}
    /\ Len(host.peersRef) = 2
    /\ \A i \in Indices(host.peersRef) :
          toGate[host.peersRef[i].conn] = <<StateChangeMsg("LOBBY")>>

NextSampler ==
    \/ StartHost
    \/ JoinSession("g1")
    \/ \E c \in ConnIds : HostConnOpen(c)
    \/ \E c \in ConnIds : HostConnData(c)
    \/ \E c \in ConnIds : GateConnOpen(c)
    \/ \E c \in ConnIds : GateConnData(c)
    \/ HostRender
    \/ SamplerTick
    \/ ClockTick
    \/ ArmClick
    \/ CancelClick
    \/ SetRoleClick("START")
    \/ ResetClick
    \/ HostBack
    \/ \E role \in RoleButtons : GateSendsTrigger("g1", role, 1)

SpecSampler == Init /\ [][NextSampler]_vars

NextReset ==
    \/ StartHost
    \/ \E g \in Gates : JoinSession(g)
    \/ \E c \in ConnIds : HostConnOpen(c)
    \/ \E c \in ConnIds : HostConnData(c)
    \/ \E c \in ConnIds : GateConnOpen(c)
    \/ \E c \in ConnIds : GateConnData(c)
    \/ HostRender
    \/ SetRoleClick("START")
    \/ ArmClick
    \/ ResetClick
    \/ GateRender("g1")
    \/ ManualTrigger("g1")

SpecReset == Init /\ [][NextReset]_vars

ArmOnce ==
    /\ host.raceState = "IDLE"
    /\ \E a, b \in Gates :
         /\ gates[a].view.role = "START" /\ gates[b].view.role = "FINISH"
         /\ \E i, j \in Indices(host.peersRef) :
              /\ host.peersRef[i].id = a /\ host.peersRef[i].role = "START"
              /\ host.peersRef[j].id = b /\ host.peersRef[j].role = "FINISH"
    /\ ArmClick

\* The runner passes the START gate once, and the FINISH gate once, after the
\* START gate's TRIGGER has reached the host.
RunnerPasses(g) ==
    /\ gates[g].sent = 0
    /\ gates[g].status = "ARMED"
    /\ \/ gates[g].view.role = "START"
       \/ /\ gates[g].view.role = "FINISH"
          /\ \E i \in Indices(host.triggerEvents) : host.triggerEvents[i].role = "START"
    /\ MotionFire(g)

NextEndToEnd ==
    \/ StartHost
    \/ \E g \in Gates : JoinSession(g)
    \/ \E c \in ConnIds : HostConnOpen(c)
    \/ \E c \in ConnIds : HostConnData(c)
    \/ \E c \in ConnIds : GateConnOpen(c)
    \/ \E c \in ConnIds : GateConnData(c)
    \/ HostRender
    \/ \E role \in RoleButtons : SetRoleClick(role)
    \/ ArmOnce
    \/ \E g \in Gates : GateRender(g)
    \/ \E g \in Gates : CameraStart(g)
    \/ \E g \in Gates : RunnerPasses(g)

SpecEndToEnd == Init /\ [][NextEndToEnd]_vars

\* Nothing is in flight and another render of the host or of a gate would
\* change neither a status nor a detector nor send anything.
Settled ==
    /\ ~Flushing
    /\ \A c \in ConnIds : toHost[c] = <<>> /\ toGate[c] = <<>>
    /\ HostQuiescent
    /\ hostRender(World).host.raceState = host.raceState
    /\ hostRender(World).toGate = toGate
    /\ \A g \in Gates :
         /\ GateQuiescent(g)
         /\ ~gates[g].motionDetected
         /\ gateRender(World, g, 1).gates[g].status = gates[g].status
         /\ gateRender(World, g, 1).gates[g].isArmed = gates[g].isArmed
         /\ gateRender(World, g, 1).toHost = toHost

\* Both gates have sent their TRIGGER: the START gate first.
BothPassed ==
    \E a, b \in Gates :
        /\ gates[a].view.role = "START" /\ gates[a].sent > 0
        /\ gates[b].view.role = "FINISH" /\ gates[b].sent > 0

\* C13: once the runner has passed the START gate and later the FINISH gate
\* and everything has been delivered and rendered, the host is FINISHED and
\* both gates are back in LOBBY with their detectors disarmed.
C13_RaceCompletes ==
    (Settled /\ BothPassed)
    => /\ host.raceState = "FINISHED"
       /\ \A g \in Gates : gates[g].status = "LOBBY" /\ ~gates[g].isArmed

\* A race that did complete.
C13_Witness ==
    /\ Settled /\ BothPassed
    /\ host.raceState = "FINISHED"
    /\ \A g \in Gates : gates[g].status = "LOBBY" /\ ~gates[g].isArmed

\* ------------------------------- one gate with its view whose link may drop
\* and be re-established while the operator assigns roles, arms and cancels.
NextSync ==
    \/ StartHost
    \/ JoinSession("g1")
    \/ \E c \in ConnIds : HostConnOpen(c)
    \/ \E c \in ConnIds : HostConnData(c)
    \/ \E c \in ConnIds : HostConnClose(c)
    \/ \E c \in ConnIds : GateConnOpen(c)
    \/ \E c \in ConnIds : GateConnData(c)
    \/ \E c \in ConnIds : GateConnClose(c)
    \/ RetryTimer("g1")
    \/ HostRender
    \/ \E role \in RoleButtons : SetRoleClick(role)
    \/ ArmClick
    \/ CancelClick
    \/ GateRender("g1")

SpecSync == Init /\ [][NextSync]_vars

\* Gate g has a connection that is open at both ends and registered by the
\* host, nothing is in flight, and rendering again changes nothing.
ConnectedAndSettled(g) ==
    /\ ~Flushing
    /\ gates[g].hostConn # NoConn
    /\ conns[gates[g].hostConn].g = "open"
    /\ conns[gates[g].hostConn].h = "open"
    /\ \E i \in Indices(host.peersRef) : host.peersRef[i].conn = gates[g].hostConn
    /\ \A c \in ConnIds : toHost[c] = <<>> /\ toGate[c] = <<>>
    /\ HostQuiescent
    /\ hostRender(World).host.raceState = host.raceState
    /\ GateQuiescent(g)
    /\ gateRender(World, g, 1).gates[g].status = gates[g].status

\* C14: a gate with an open connection ends up in the status of the host's
\* most recent broadcast: ARMED while the host is ARMED, also when it
\* was disconnected at the time of the broadcast and reconnected afterwards.
C14_GateFollowsBroadcast ==
    \A g \in Gates :
        (ConnectedAndSettled(g) /\ host.raceState = "ARMED")
        => gates[g].status = "ARMED"

\* A gate that was connected when the host armed and did follow.
C14_Witness ==
    /\ ConnectedAndSettled("g1")
    /\ host.raceState = "ARMED"
    /\ gates["g1"].status = "ARMED"

\* One STATE_CHANGE carrying state for every entry of the registry as it is
\* before the step, in registry order.
BroadcastLog(state) ==
    [i \in Indices(host.peersRef) |->
        [conn |-> host.peersRef[i].conn, msg |-> StateChangeMsg(state)]]

\* The step puts m on every registered connection and on no other; it takes
\* nothing from a gate.
SentToRegistry(m) ==
    /\ toHost' = toHost
    /\ \A c \in ConnIds :
         toGate'[c] = IF /\ \E i \in Indices(host.peersRef) : host.peersRef[i].conn = c
                         /\ conns[c].g # "closed"
                      THEN Append(toGate[c], m)
                      ELSE toGate[c]

\* C15: every step that calls broadcastState (arming, cancelling, handling the
\* FINISH trigger) sends exactly one STATE_CHANGE with that state to every
\* peer of the registry, whatever its role and name, sends nothing else, and
\* completes within the step without taking any message from a gate.
C15_BroadcastToEveryPeer ==
    [][/\ ArmClick =>
            /\ host'.log = BroadcastLog("ARMED")
            /\ SentToRegistry(StateChangeMsg("ARMED"))
            /\ host'.raceState = "ARMED"
       /\ CancelClick =>
            /\ host'.log = BroadcastLog("LOBBY")
            /\ SentToRegistry(StateChangeMsg("LOBBY"))
            /\ host'.raceState = "IDLE"
       /\ (HostRender /\ host'.raceState = "FINISHED" /\ host.raceState = "RUNNING") =>
            /\ host'.log = BroadcastLog("LOBBY")
            /\ SentToRegistry(StateChangeMsg("LOBBY"))]_vars

\* The host has just armed with two peers registered, one of which has no role
\* and has not been heard from; it got the STATE_CHANGE all the same.
C15_Witness ==
    /\ host.flush
    /\ host.raceState = "ARMED"
    /\ Len(host.peersRef) = 2
    /\ Len(host.log) = 2
    /\ \E i \in Indices(host.peersRef) :
         /\ host.peersRef[i].role = NONE
         /\ host.peersRef[i].name = "Unknown"
         /\ toGate[host.peersRef[i].conn] = <<StateChangeMsg("ARMED")>>
         /\ host.log[i] = [conn |-> host.peersRef[i].conn, msg |-> StateChangeMsg("ARMED")]

\* The status and the armed flag a gate has after processing message m.
StatusFor(m) == IF m = StateChangeMsg("ARMED") THEN "ARMED" ELSE "LOBBY"
ArmedFor(m) == m = StateChangeMsg("ARMED")

StateMessages == {StateChangeMsg("ARMED"), StateChangeMsg("LOBBY"), ResetMsg}

\* The render that is about to happen runs handleMotionTrigger as well: the
\* view it commits shows motion detected while ARMED.
MotionPending(g) ==
    GateViewOf(gates[g]).motionDetected /\ GateViewOf(gates[g]).status = "ARMED"

C17_TriggeredUntilLobby ==
    [][\A g \in Gates :
        /\ (gates[g].status # "TRIGGERED" /\ gates'[g].status = "TRIGGERED")
              => /\ gates[g].status = "ARMED"
                 /\ GateRender(g) \/ ManualTrigger(g)
        /\ gates[g].status = "TRIGGERED"
              => \/ gates'[g].status = "TRIGGERED"
                 \/ /\ gates'[g].status = "LOBBY"
                    /\ gates[g].latestMessage \in {ResetMsg, StateChangeMsg("LOBBY")}]_vars

\* A gate that is TRIGGERED after its manual trigger.
C17_Witness ==
    /\ gates["g1"].status = "TRIGGERED"
    /\ gates["g1"].view.status = "ARMED"
    /\ gates["g1"].flush

\* C18: a render of a gate whose latest message is ROLE_ASSIGN stores the
\* role of the message and nothing else: the message effect changes no other
\* field of the gate and sends nothing, the armed flag is as before, and so
\* are the status and the queues to the host unless the motion effect of the
\* same render has triggered.
C18_RoleAssignOnlyStoresRole ==
    [][\A g \in Gates :
        (GateRender(g) /\ gates[g].latestMessage.type = "ROLE_ASSIGN") =>
            LET m == gates[g].latestMessage
                committed == gateCommit(World, g)
            IN /\ messageEffect(committed, g) = [committed EXCEPT !.gates[g].role = m.role]
               /\ gates'[g].role = m.role
               /\ gates'[g].isArmed = gates[g].isArmed
               /\ ~MotionPending(g) =>
                    /\ gates'[g].status = gates[g].status
                    /\ toHost' = toHost
                    /\ toGate' = toGate
                    /\ host' = host]_vars

\* An ARMED gate holding START has rendered ROLE_ASSIGN(NONE): it has no role
\* any more and is still ARMED with its detector armed.
C18_Witness ==
    /\ gates["g1"].view.latestMessage = RoleAssignMsg(NONE)
    /\ gates["g1"].view.role = "START"
    /\ gates["g1"].view.status = "ARMED"
    /\ gates["g1"].view.isArmed
    /\ gates["g1"].role = NONE
    /\ gates["g1"].status = "ARMED"
    /\ gates["g1"].isArmed

\* The peer the role buttons act on: the first rendered peer without a role.
FirstUnassigned == host.view.peers[FindByRole(host.view.peers, NONE)].id

\* The other peers that hold role in the rendered registry.
Holders(role) ==
    {host.view.peers[i].id : i \in {j \in Indices(host.view.peers) :
        host.view.peers[j].role = role /\ host.view.peers[j].id # FirstUnassigned}}

\* C19: a click that assigns role R to peer B sends, in this order, a
\* ROLE_ASSIGN(NONE) to every other peer that holds R and then one
\* ROLE_ASSIGN(R) to B, the last message of the click; it sends
\* ROLE_ASSIGN(R) to no one else and nothing on any other connection.
C19_ClearBeforeAssign ==
    [][\A role \in RoleButtons :
        SetRoleClick(role) =>
            LET sent == host'.log
                n == Len(sent)
            IN /\ n >= 1
               /\ sent[n].msg = RoleAssignMsg(role)
               /\ sent[n].conn = host.peersRef[FindById(host.peersRef, FirstUnassigned)].conn
               /\ \A k \in 1..(n - 1) :
                    /\ sent[k].msg = RoleAssignMsg(NONE)
                    /\ conns[sent[k].conn].gate \in Holders(role)
               /\ \A a \in Holders(role) :
                    \E k \in 1..(n - 1) : conns[sent[k].conn].gate = a
               /\ \A c \in ConnIds :
                    (\A k \in 1..n : sent[k].conn # c) => toGate'[c] = toGate[c]]_vars

\* The operator has just moved START from one gate to the other: the click
\* sent ROLE_ASSIGN(NONE) to the previous holder and then ROLE_ASSIGN(START)
\* to the new one.
C19_Witness ==
    /\ host.flush
    /\ Len(host.log) = 2
    /\ host.log[1].msg = RoleAssignMsg(NONE)
    /\ host.log[2].msg = RoleAssignMsg("START")
    /\ conns[host.log[1].conn].gate # conns[host.log[2].conn].gate
    /\ toGate[host.log[2].conn] = <<RoleAssignMsg("START")>>
    /\ Len(toGate[host.log[1].conn]) > 0

\* The registry entries of peers other than id, in order.
OtherEntries(id) == SelectSeq(host.peersRef, LAMBDA p : p.id # id)

\* C20: when a gate's connection opens the host appends a peer with role NONE
\* and the placeholder name; a JOIN changes the name of the sender's entries
\* and nothing else in the registry; when a connection closes or errors no
\* entry of that peer remains, so the role it held is held by no one, and
\* the other peers' entries are as they were.
C20_RegistryLifecycle ==
    [][\A c \in ConnIds :
        /\ HostConnOpen(c) =>
             host'.peersRef = Append(host.peersRef,
                 [id |-> conns[c].gate, conn |-> c, role |-> NONE, name |-> "Unknown"])
        /\ (HostConnData(c) /\ Head(toHost[c]).type = "JOIN") =>
             /\ Len(host'.peersRef) = Len(host.peersRef)
             /\ \A i \in Indices(host.peersRef) :
                  /\ host'.peersRef[i].id = host.peersRef[i].id
                  /\ host'.peersRef[i].conn = host.peersRef[i].conn
                  /\ host'.peersRef[i].role = host.peersRef[i].role
                  /\ host'.peersRef[i].name =
                       IF host.peersRef[i].id = conns[c].gate THEN "Named"
                       ELSE host.peersRef[i].name
        /\ HostConnClose(c) =>
             /\ host'.peersRef = OtherEntries(conns[c].gate)
             /\ \A i \in Indices(host'.peersRef) : host'.peersRef[i].id # conns[c].gate]_vars

\* A peer that was assigned START is gone from the registry after its
\* connection closed, before the ROLE_ASSIGN reached it; the other peer is
\* still registered and START is free.
C20_Witness ==
    \E c \in ConnIds :
        /\ conns[c].h = "closed"
        /\ toGate[c] = <<RoleAssignMsg("START")>>
        /\ \A i \in Indices(host.peersRef) :
             host.peersRef[i].id # conns[c].gate /\ host.peersRef[i].role # "START"
        /\ Len(host.peersRef) > 0

\* ------------------------------- one gate whose connections to the host open,
\* close and fail; the host registers them and receives the JOINs.
NextReconnect ==
    \/ StartHost
    \/ JoinSession("g1")
    \/ \E c \in ConnIds : HostConnOpen(c)
    \/ \E c \in ConnIds : HostConnData(c)
    \/ \E c \in ConnIds : HostConnClose(c)
    \/ \E c \in ConnIds : GateConnOpen(c)
    \/ \E c \in ConnIds : GateConnClose(c)
    \/ \E c \in ConnIds, type \in ConnErrorTypes : GateConnError(c, type)
    \/ RetryTimer("g1")

SpecReconnect == Init /\ [][NextReconnect]_vars

\* The step opens exactly one new connection, for gate g, and sends nothing.
OpensOneConnection(g) ==
    /\ \E c \in ConnIds :
         /\ conns[c].gate = "-"
         /\ conns' = [conns EXCEPT ![c] = [gate |-> g, g |-> "pending", h |-> "none", error |-> ""]]
    /\ toHost' = toHost /\ toGate' = toGate

\* C21: a close of a gate's connection, and an error of type peer-unavailable
\* or network, schedule one reconnect attempt (an error of another type
\* schedules none); the attempt, when it fires, opens one new connection if the
\* gate has no host connection on record and otherwise changes nothing but the
\* timer; a connection that opens sends JOIN.
C21_ReconnectWhenUnconnected ==
    [][/\ \A c \in ConnIds :
            /\ GateConnClose(c) =>
                 /\ gates'[conns[c].gate].retry = gates[conns[c].gate].retry + 1
                 /\ gates'[conns[c].gate].hostConn = NoConn
            /\ \A type \in ConnErrorTypes :
                 GateConnError(c, type) =>
                    /\ gates'[conns[c].gate].retry =
                         gates[conns[c].gate].retry
                           + (IF type \in {"peer-unavailable", "network"} THEN 1 ELSE 0)
                    /\ gates'[conns[c].gate].hostConn = gates[conns[c].gate].hostConn
                    /\ conns' = [conns EXCEPT ![c] = connAfterError(@, type)]
            /\ GateConnOpen(c) =>
                 /\ gates'[conns[c].gate].hostConn = c
                 /\ toHost'[c] = IF conns[c].h = "closed" THEN toHost[c]
                                 ELSE Append(toHost[c], JoinMsg)
       /\ \A g \in Gates :
            RetryTimer(g) =>
                /\ gates'[g].retry = gates[g].retry - 1
                /\ gates'[g].hostConn = gates[g].hostConn
                /\ IF gates[g].hostConn = NoConn
                   THEN OpensOneConnection(g)
                   ELSE /\ conns' = conns /\ toHost' = toHost /\ toGate' = toGate
                        /\ gates' = [gates EXCEPT ![g].retry = @ - 1]
                        /\ host' = host]_vars

\* A reconnect attempt has fired while the gate had a host connection (it was
\* scheduled by a network error of the open connection) and did nothing: the
\* gate has one connection, open, and no timer pending.
C21_Witness ==
    /\ gates["g1"].connectionStatus = "Connection Error"
    /\ gates["g1"].retry = 0
    /\ gates["g1"].hostConn # NoConn
    /\ conns[gates["g1"].hostConn].g = "open"
    /\ Cardinality({c \in ConnIds : conns[c].gate = "g1"}) = 1
    /\ Len(host.peersRef) = 1

\* ------------------------------- the host's transport identity: init, the
\* events of its Peer objects, the retry timer, destroy, the back button.
NextInit ==
    \/ InitClick
    \/ \E p \in PeerObjs : PeerOpen(p)
    \/ \E p \in PeerObjs : PeerDisconnected(p)
    \/ \E p \in PeerObjs : PeerClose(p)
    \/ \E p \in PeerObjs, type \in PeerErrorTypes : PeerError(p, type)
    \/ \E k \in Calls : InitRetry(k)
    \/ Destroy
    \/ HostBack

SpecInit == Init /\ [][NextInit]_vars

\* Call c is k or a call whose promise is forwarded to k by .then(resolve).
ForwardsTo(e, c, k) ==
    \/ c = k
    \/ e.calls[c].then = k
    \/ e.calls[c].then # NoCall /\ e.calls[e.calls[c].then].then = k

\* C22: an unavailable-id error rejects nothing and sets no timer: init runs
\* again at once with a newly generated id, its promise forwarded to the
\* failed call's, and the failed call either stays pending with a new Peer
\* opening or is resolved with the engine's identity; when a Peer opens, every
\* pending call forwarded to resolves with the id that opened, which is the
\* engine's id; and no call is ever rejected with unavailable-id.
C22_IdCollisionRetried ==
    [][/\ \A p \in PeerObjs :
            /\ PeerError(p, "unavailable-id") =>
                 LET e == host.engine
                     k == e.objs[p].call
                 IN /\ host'.engine.timers = e.timers
                    /\ host'.engine.calls[k].st # "rejected"
                    /\ \/ /\ host'.engine.calls[k].st = e.calls[k].st
                          /\ \E q \in PeerObjs :
                               /\ e.objs[q].st = "none"
                               /\ host'.engine.objs[q].st = "opening"
                               /\ host'.engine.objs[q].id \in PeerIds
                               /\ host'.engine.calls[host'.engine.objs[q].call].then = k
                               /\ host'.engine.calls[host'.engine.objs[q].call].catch = k
                       \/ /\ e.calls[k].st = "pending"
                          /\ host'.engine.calls[k].st = "resolved"
                          /\ host'.engine.calls[k].value = host'.engine.myId
            /\ PeerOpen(p) =>
                 /\ host'.engine.myId = host.engine.objs[p].id
                 /\ \A k \in Calls :
                      (/\ host.engine.calls[k].st = "pending"
                       /\ ForwardsTo(host.engine, host.engine.objs[p].call, k))
                      => /\ host'.engine.calls[k].st = "resolved"
                         /\ host'.engine.calls[k].value = host.engine.objs[p].id
       /\ \A k \in Calls : host'.engine.calls[k].error # "unavailable-id"]_vars

\* A Peer found its id taken while another Peer of the engine was open: the
\* init that ran again returned at once, and the call is resolved with an id
\* that is not the engine's.
C22_Witness ==
    /\ host.engine.connectionStatus = "Error: unavailable-id"
    /\ host.engine.isConnected
    /\ \E p \in PeerObjs :
          /\ host.engine.objs[p].st = "failed"
          /\ host.engine.calls[host.engine.objs[p].call].st = "resolved"
          /\ host.engine.calls[host.engine.objs[p].call].value # host.engine.myId

\* The engine of the next state differs from e in the status and in the state
\* of Peer p at most: no Peer is created and no promise is settled.
OnlyPeerStateChanges(e, p) ==
    host'.engine = [e EXCEPT !.connectionStatus = host'.engine.connectionStatus,
                             !.objs[p].st = host'.engine.objs[p].st]

\* C23: a server-error or network error rejects nothing and creates no Peer:
\* it sets the retry timer of the call; the timer, when it fires, runs init
\* again with the call's id argument, rejections forwarded to the call, if the
\* engine is not connected, and does nothing if it is; an error of any other
\* type but unavailable-id rejects the call with that error.
C23_OpenFailureRetried ==
    [][/\ \A p \in PeerObjs, type \in {"server-error", "network"} :
            PeerError(p, type) =>
                /\ host'.engine.timers = host.engine.timers \cup {host.engine.objs[p].call}
                /\ OnlyPeerStateChanges([host.engine EXCEPT !.timers = host'.engine.timers], p)
       /\ \A p \in PeerObjs :
            PeerError(p, "browser-incompatible") =>
                LET k == host.engine.objs[p].call
                IN /\ host.engine.calls[k].st = "pending" =>
                        /\ host'.engine.calls[k].st = "rejected"
                        /\ host'.engine.calls[k].error = "browser-incompatible"
                   /\ host'.engine.timers = host.engine.timers
                   /\ \A q \in PeerObjs \ {p} : host'.engine.objs[q] = host.engine.objs[q]
       /\ \A k \in Calls :
            InitRetry(k) =>
                /\ host'.engine.timers = host.engine.timers \ {k}
                /\ IF host.engine.isConnected
                   THEN host'.engine = [host.engine EXCEPT !.timers = @ \ {k}]
                   ELSE \E q \in PeerObjs :
                          /\ host.engine.objs[q].st = "none"
                          /\ host'.engine.objs[q].st = "opening"
                          /\ host'.engine.objs[q].id =
                               IF host.engine.calls[k].id # NoId
                               THEN host.engine.calls[k].id
                               ELSE host'.engine.objs[q].id
                          /\ host'.engine.objs[q].id \in PeerIds
                          /\ host'.engine.calls[host'.engine.objs[q].call].catch = k
                          /\ host'.engine.calls[host'.engine.objs[q].call].then = NoCall
                          /\ host'.engine.calls[k] = host.engine.calls[k]]_vars

\* The first Peer failed to open with a network error; the retry timer has
\* run init again and the second Peer is open.
C23_Witness ==
    /\ host.engine.objs[1].st = "failed"
    /\ host.engine.connectionStatus = "Online"
    /\ host.engine.objs[2].st = "open"
    /\ host.engine.calls[2].catch = 1
    /\ host.engine.calls[2].then = NoCall
    /\ host.engine.timers = {}
    /\ host.engine.calls[1].error = ""

\* Gate g has no host connection on record and nothing will give it one: no
\* connection is being opened and no reconnect attempt is scheduled.
GaveUp(g) ==
    /\ gates[g].up
    /\ gates[g].hostConn = NoConn
    /\ gates[g].retry = 0
    /\ \A c \in ConnIds : conns[c].gate = g => conns[c].g # "pending"

\* A connection of gate g has failed with an error of a type for which the
\* error handler schedules no attempt.
FailedUnretried(g) ==
    \E c \in ConnIds :
        /\ conns[c].gate = g /\ conns[c].g = "failed"
        /\ conns[c].error \notin {"peer-unavailable", "network"}

\* C24 as stated: after any failure, of whatever error type, a gate without a
\* host connection has a connection being opened or a reconnect attempt
\* scheduled.
C24_NeverGivesUp == \A g \in Gates : ~GaveUp(g)

\* C24: a gate without a host connection has a connection being opened or a
\* reconnect attempt scheduled, as long as none of its connections has failed
\* with an error other than peer-unavailable or network.
C24_RetriesListedFailures == \A g \in Gates : GaveUp(g) => FailedUnretried(g)

\* The gate lost its first connection, its reconnect attempt has opened a
\* second one and the host has registered it.
C24_Witness ==
    \E c, d \in ConnIds :
        /\ conns[c].gate = "g1" /\ conns[c].g = "closed"
        /\ conns[d].gate = "g1" /\ conns[d].g = "open" /\ conns[d].h = "open"
        /\ gates["g1"].hostConn = d
        /\ gates["g1"].retry = 0

\* ------------------------------- destroy: a host with a registered gate and
\* buffered triggers, and a gate with a host connection, are destroyed.
NextDestroy ==
    \/ StartHost
    \/ JoinSession("g1")
    \/ \E c \in ConnIds : HostConnOpen(c)
    \/ \E c \in ConnIds : HostConnData(c)
    \/ \E c \in ConnIds : GateConnOpen(c)
    \/ GateSendsTrigger("g1", "START", 1)
    \/ HostRender
    \/ Destroy
    \/ GateDestroy("g1")
    \/ \E p \in PeerObjs : PeerClose(p)

SpecDestroy == Init /\ [][NextDestroy]_vars

\* C25: destroy() on an engine with an identity destroys the Peer and leaves
\* no identity, an empty registry and an empty trigger buffer (on a gate: no
\* host connection on record); destroy() on an engine without an identity, and
\* so a second destroy(), changes nothing at all.
C25_DestroyIdempotent ==
    [][/\ (Destroy /\ host.engine.peerRef = NoPeer) =>
            /\ host'.engine = host.engine
            /\ host'.peersRef = host.peersRef
            /\ host'.triggerEvents = host.triggerEvents
            /\ <<gates, conns, toHost, toGate>>' = <<gates, conns, toHost, toGate>>
       /\ (Destroy /\ host.engine.peerRef # NoPeer) =>
            /\ host'.engine.peerRef = NoPeer
            /\ host'.engine.objs[host.engine.peerRef].st = "destroyed"
            /\ ~host'.engine.isConnected
            /\ ~host'.up
            /\ host'.peersRef = <<>>
            /\ host'.triggerEvents = <<>>
       /\ GateDestroy("g1") =>
            /\ ~gates'["g1"].up
            /\ gates'["g1"].hostConn = NoConn
       /\ destroy(destroy(World)) = destroy(World)
       /\ gateDestroy(gateDestroy(World, "g1"), "g1") = gateDestroy(World, "g1")
       /\ host.engine.peerRef = NoPeer => destroy(World) = World
       /\ ~gates["g1"].up => gateDestroy(World, "g1") = World]_vars

\* A host that had a gate registered and a TRIGGER buffered has been destroyed.
C25_Witness ==
    /\ host.engine.objs[1].st = "destroyed"
    /\ host.engine.peerRef = NoPeer
    /\ host.peersRef = <<>>
    /\ host.triggerEvents = <<>>
    /\ host.latestMessage.type = "TRIGGER"
    /\ \E c \in ConnIds : conns[c].h = "open"
    /\ Len(host.view.peers) > 0

\* ---------------------------------------------------------------- C26
\* C26: a gate whose camera acquisition failed (the last getUserMedia was
\* rejected) stays in LOBBY and cannot arm: it is never ARMED with the
\* detector's armed flag set, and no new acquisition is scheduled for it.
C26_FailedCameraNeverArms ==
    \A g \in Gates :
        gates[g].camFailed =>
            /\ ~(gates[g].status = "ARMED" /\ gates[g].isArmed)
            /\ ~gates[g].camTimer

\* The acquisition failed while the gate was in LOBBY; a STATE_CHANGE("ARMED")
\* received afterwards has been applied and rendered.
C26_Witness ==
    /\ gates["g1"].camFailed
    /\ gates["g1"].view.latestMessage = StateChangeMsg("ARMED")
    /\ gates["g1"].view.status = "ARMED"
    /\ gates["g1"].view.isArmed

\* ---------------------------------------------------------------- C27
RaceTransitions ==
    {<<"IDLE", "ARMED">>, <<"FINISHED", "ARMED">>, <<"ARMED", "RUNNING">>,
     <<"RUNNING", "FINISHED">>, <<"ARMED", "IDLE">>, <<"RUNNING", "IDLE">>}

\* What the operator's buttons of a rendered, settled HostView do to the race
\* state: Cancel / Stop Race is shown in ARMED and RUNNING and leads to IDLE,
\* Arm System is shown in FINISHED, a peer holds START, and it leads to ARMED.
ButtonsLeadOut ==
    (host.mounted /\ HostQuiescent) =>
        /\ host.view.raceState \in {"ARMED", "RUNNING"} =>
              /\ cancelVisible(host.view.raceState)
              /\ cancelRace(AtClick).host.raceState = "IDLE"
        /\ host.view.raceState = "FINISHED" =>
              /\ armVisible(host.view.raceState)
              /\ canStart(host.view.peers)
              /\ armSystem(AtClick).host.raceState = "ARMED"

EntriesOf(id) == SelectSeq(host.peersRef, LAMBDA p : p.id = id)

HasOpenConn(g) == \E c \in ConnIds : conns[c].gate = g /\ conns[c].h = "open"

\* C28: the host's registry holds exactly one entry for each peer with a
\* connection that is open at the host and none for any other peer: never two
\* entries with the same peer id, never an open connection without an entry.
C28_RegistryMatchesConnections ==
    \A g \in Gates :
        Len(EntriesOf(g)) = IF HasOpenConn(g) THEN 1 ELSE 0

\* The gate reconnected before the host saw the first connection close; the
\* host has since seen that close, and the gate's second connection is open
\* at both ends with no entry in the registry.
C28_Witness ==
    /\ \E c, d \in ConnIds :
          /\ conns[c].gate = "g1" /\ conns[c].h = "closed"
          /\ conns[d].gate = "g1" /\ conns[d].h = "open" /\ conns[d].g = "open"
          /\ gates["g1"].hostConn = d
    /\ EntriesOf("g1") = <<>>

\* ------------------------------------- one gate whose connection fails with
\* both events, so that two reconnect attempts are pending at once
NextSupersede ==
    \/ StartHost
    \/ JoinSession("g1")
    \/ \E c \in ConnIds : HostConnOpen(c)
    \/ \E c \in ConnIds : HostConnData(c)
    \/ \E c \in ConnIds : HostConnClose(c)
    \/ \E c \in ConnIds : GateConnOpen(c)
    \/ \E c \in ConnIds : GateConnClose(c)
    \/ \E c \in ConnIds : GateConnErrorThenClose(c, "network")
    \/ RetryTimer("g1")

SpecSupersede == Init /\ [][NextSupersede]_vars

\* ---------------------------------------------------------------- C29
\* The connections a gate has open (at its own end).
OpenConns(g) == {c \in ConnIds : conns[c].gate = g /\ conns[c].g = "open"}

\* C29: a gate has at most one open connection to the host, and its recorded
\* host connection is null exactly when it has none.
C29_SingleHostConnection ==
    \A g \in Gates :
        /\ Cardinality(OpenConns(g)) <= 1
        /\ (gates[g].hostConn = NoConn) <=> (OpenConns(g) = {})

\* Both of the two reconnect attempts scheduled for one connection have
\* opened a connection; the older of the two has closed since, and the gate
\* has no host connection on record while the newer one is open.
C29_Witness ==
    \E c, d \in ConnIds :
        /\ c < d
        /\ conns[c].gate = "g1" /\ conns[c].g = "closed" /\ conns[c].h = "open"
        /\ conns[d].gate = "g1" /\ conns[d].g = "open" /\ conns[d].h = "open"
        /\ gates["g1"].hostConn = NoConn

\* ---------------------------------------------------------------- C30
\* The registry has the peer under the role.
Registered(id, role) ==
    \E i \in Indices(host.peersRef) : host.peersRef[i].id = id /\ host.peersRef[i].role = role

\* C30: the host changes the race state on a TRIGGER only if the sending peer
\* is in the registry with the role the message names. Every TRIGGER here is
\* sent by gate g1, and the render that hands it to handleTrigger is the only
\* step in which a TRIGGER changes the race state.
C30_TriggerFromRoleHolder ==
    [][(HostRender /\ host'.raceState # host.raceState) =>
           Registered("g1", host.latestMessage.role)]_vars

\* The race runs, started by a TRIGGER(START) of g1, while the registry has
\* another peer under START and g1 under another role.
C30_Witness ==
    /\ host.raceState = "RUNNING"
    /\ host.view.raceState = "RUNNING"
    /\ host.view.latestMessage = TriggerMsg("START", 1)
    /\ Registered("g2", "START")
    /\ ~Registered("g1", "START")
    /\ \E i \in Indices(host.peersRef) : host.peersRef[i].id = "g1"
    /\ \A c \in ConnIds : conns[c].gate = "g2" => toHost[c] = <<>>

\* ---------------------------------------------------------------- C31
\* Gate g is connected and registered, nothing is in flight, and rendering
\* again would change neither its status nor its role.
RoleSettled(g) ==
    /\ ConnectedAndSettled(g)
    /\ gateRender(World, g, 1).gates[g].role = gates[g].role

\* C31: once everything in flight is delivered and rendered, the role a
\* connected gate has stored is the role the host's registry records for it.
C31_GateRoleIsRegistryRole ==
    \A g \in Gates :
        RoleSettled(g) =>
            \A i \in Indices(host.peersRef) :
                host.peersRef[i].id = g => host.peersRef[i].role = gates[g].role

\* The gate was given START, lost its connection and reconnected: the registry
\* has it under NONE on the new connection while the gate still has START.
C31_Witness ==
    /\ RoleSettled("g1")
    /\ gates["g1"].role = "START"
    /\ Len(host.peersRef) = 1
    /\ host.peersRef[1].role = NONE
    /\ host.peersRef[1].conn = gates["g1"].hostConn
    /\ \E c \in ConnIds : c # gates["g1"].hostConn /\ conns[c].gate = "g1" /\ conns[c].h = "closed"

\* ---------------------------------------------------------------- C32
\* The gate's latest-message slot holds a message its controller has not been
\* rendered with yet.
Unapplied(g) == gates[g].latestMessage # gates[g].view.latestMessage

\* C32: every message delivered to a gate is applied by its controller: no
\* delivery overwrites a message in the slot that has not been applied.
C32_SlotDropsNothing ==
    [][\A c \in ConnIds : GateConnData(c) => ~Unapplied(conns[c].gate)]_vars

\* ROLE_ASSIGN(START) was overwritten in the slot by STATE_CHANGE("ARMED")
\* before the gate rendered: the gate is armed with role NONE, the registry
\* has it under START, and nothing is in flight.
C32_Witness ==
    /\ RoleSettled("g1")
    /\ gates["g1"].view.latestMessage = StateChangeMsg("ARMED")
    /\ gates["g1"].status = "ARMED"
    /\ gates["g1"].role = NONE
    /\ Len(host.peersRef) = 1
    /\ host.peersRef[1].role = "START"

\* ---------------------------------------------------------------- C33
\* ------------------------------------- one gate with its manual trigger,
\* whose link may drop and be re-established while it is armed
NextDrop ==
    \/ StartHost
    \/ JoinSession("g1")
    \/ \E c \in ConnIds : HostConnOpen(c)
    \/ \E c \in ConnIds : HostConnData(c)
    \/ \E c \in ConnIds : GateConnOpen(c)
    \/ \E c \in ConnIds : GateConnData(c)
    \/ \E c \in ConnIds : GateConnClose(c)
    \/ RetryTimer("g1")
    \/ HostRender
    \/ SetRoleClick("START")
    \/ ArmClick
    \/ GateRender("g1")
    \/ ManualTrigger("g1")

SpecDrop == Init /\ [][NextDrop]_vars

\* C33: a trigger of a gate with no host connection on record sends nothing
\* and is not kept: the gate goes to TRIGGERED and nothing else of it changes,
\* and opening a connection later sends the JOIN handshake and nothing more.
C33_TriggerWithoutConnectionDropped ==
    [][/\ (ManualTrigger("g1") /\ gates["g1"].hostConn = NoConn) =>
            /\ toHost' = toHost
            /\ gates'["g1"] = [gates["g1"] EXCEPT !.status = "TRIGGERED", !.flush = TRUE]
       /\ (GateRender("g1") /\ gates["g1"].hostConn = NoConn) => toHost' = toHost
       /\ \A c \in ConnIds :
            GateConnOpen(c) => toHost' = [toHost EXCEPT ![c] = Append(@, JoinMsg)]]_vars

\* The gate triggered while it had no host connection and has reconnected
\* since: it is TRIGGERED, it has sent no TRIGGER, and the host has none.
C33_Witness ==
    /\ gates["g1"].view.status = "TRIGGERED"
    /\ gates["g1"].view.role = "START"
    /\ gates["g1"].sent = 0
    /\ gates["g1"].hostConn # NoConn
    /\ \E c \in ConnIds : conns[c].gate = "g1" /\ conns[c].g = "closed"
    /\ host.triggerEvents = <<>>
    /\ \A c \in ConnIds : toHost[c] = <<>>
    /\ host.raceState = "ARMED"

\* ---------------------------------------------------------------- C34
\* C34: after destroy(), and until the application calls init again, a retry
\* timer of init's error handler that fires creates no Peer and calls no init.
C34_NoRetryAfterDestroy ==
    [][\A k \in Calls :
          (InitRetry(k) /\ host.destroyed) =>
              /\ host'.engine.objs = host.engine.objs
              /\ host'.engine.calls = host.engine.calls]_vars

\* The retry timer fired after destroy() and a Peer it created has opened:
\* the destroyed engine is online again.
C34_Witness ==
    /\ host.destroyed
    /\ host.engine.isConnected
    /\ host.engine.peerRef # NoPeer
    /\ host.engine.objs[host.engine.peerRef].st = "open"
    /\ \E p \in PeerObjs : host.engine.objs[p].st = "destroyed"

\* ---------------------------------------------------------------- C35
\* Nothing of the engine is under way: no Peer is opening or reconnecting and
\* no retry timer is pending.
EngineIdle ==
    /\ host.engine.timers = {}
    /\ \A p \in PeerObjs : host.engine.objs[p].st \notin {"opening", "reconnecting"}

\* C35: every init call settles: once nothing of the engine is under way, no
\* promise init has returned is still pending.
C35_InitSettles ==
    EngineIdle => \A k \in Calls : host.engine.calls[k].st # "pending"

\* The first Peer failed to open with a network error, the retry's Peer has
\* opened and its own promise is resolved; the promise Home awaits is pending
\* and HostView is not mounted.
C35_Witness ==
    /\ EngineIdle
    /\ host.engine.isConnected
    /\ host.engine.objs[1].st = "failed"
    /\ host.engine.objs[2].st = "open"
    /\ host.engine.calls[2].st = "resolved"
    /\ host.engine.calls[1].st = "pending"
    /\ TopLevel(host.engine, 1)
    /\ ~host.mounted
    /\ ~host.destroyed

\* ---------------------------------------------------------------- C36
\* C36: once the engine has an identity, and until destroy(), a Peer created
\* by a retry (not by a call of the application) that opens does not give the
\* engine a different id.
C36_IdentityStable ==
    [][\A p \in PeerObjs :
          (/\ PeerOpen(p)
           /\ host.engine.myId # NoId
           /\ ~host.destroyed
           /\ ~TopLevel(host.engine, host.engine.objs[p].call))
          => host'.engine.myId = host.engine.myId]_vars

\* Home's init resolved with one id; after a disconnect and a network error
\* the retry's Peer opened under another id, with HostView mounted throughout.
C36_Witness ==
    /\ host.mounted
    /\ ~host.destroyed
    /\ host.engine.calls[1].st = "resolved"
    /\ host.engine.calls[1].value # host.engine.myId
    /\ host.engine.objs[1].st = "destroyed"
    /\ host.engine.objs[2].st = "open"
    /\ host.engine.calls[2].catch = 1
    /\ host.engine.objs[3].st = "none"

\* ---------------------------------------------------------------- C37
\* C37: on a gate the detector's armed flag is true only while the gate's
\* status is ARMED.
C37_ArmedOnlyWhileArmed ==
    \A g \in Gates : gates[g].isArmed => gates[g].status = "ARMED"

\* The manual trigger was pressed on an armed gate: the gate has rendered
\* TRIGGERED with the detector's flag still set.
C37_Witness ==
    /\ gates["g1"].view.status = "TRIGGERED"
    /\ gates["g1"].view.isArmed
    /\ ~gates["g1"].view.motionDetected
    /\ ~gates["g1"].motionDetected

\* ---------------------------------------------------------------- C38
\* The race state of the host: status, start time, elapsed time, the handle
\* of the sampler and the running samplers.
RaceStateOf(h) == <<h.raceState, h.startTime, h.elapsedTime, h.timerInterval, h.samplers>>

\* The sends of the click being flushed are those of Reset All.
ResetFlushing ==
    /\ host.flush
    /\ host.log # <<>>
    /\ \A i \in Indices(host.log) : host.log[i].msg = ResetMsg

\* C38: Reset All leaves the host's race state exactly as it was, and the
\* render that follows it leaves the status, the start time and the elapsed
\* time as they were: a reset while ARMED or RUNNING leaves the host ARMED or
\* RUNNING.
C38_ResetKeepsRaceState ==
    [][/\ ResetClick => RaceStateOf(host') = RaceStateOf(host)
       /\ (HostRender /\ ResetFlushing) =>
            /\ host'.raceState = host.raceState
            /\ host'.startTime = host.startTime
            /\ host'.elapsedTime = host.elapsedTime]_vars

\* The operator reset while the race was running: the host has rendered and
\* is still RUNNING, the gate has rendered the RESET and is in LOBBY.
C38_Witness ==
    /\ host.raceState = "RUNNING"
    /\ HostQuiescent /\ ~host.flush
    /\ host.triggerEvents = <<>>
    /\ gates["g1"].view.latestMessage = ResetMsg
    /\ gates["g1"].status = "LOBBY"
    /\ \A c \in ConnIds : toGate[c] = <<>> /\ toHost[c] = <<>>

====
